---- MODULE Spec2Model ----
(***************************************************************************)
(* Identifier codecs (GUID, URN, BaselineKey) and the identity-mapped      *)
(* resource graph of dwa_client.                                           *)
(*                                                                         *)
(* A Python str is a sequence of one-character strings.  A Python int is   *)
(* a record [neg, hi, lo] standing for (-1)^neg * (hi * 65536 + lo), so    *)
(* that 32-bit object numbers and larger values stay exact.                *)
(***************************************************************************)
EXTENDS Integers, Sequences, FiniteSets, TLC

----------------------------------------------------------------------------
(* Characters and str methods *)

NL == "\n"
HexLo == <<"0", "1", "2", "3", "4", "5", "6", "7", "8", "9", "a", "b", "c", "d", "e", "f">>
HexUp == <<"0", "1", "2", "3", "4", "5", "6", "7", "8", "9", "A", "B", "C", "D", "E", "F">>
UpperLetters == <<"A", "B", "C", "D", "E", "F", "G", "H", "I", "J", "K", "L", "M", "N", "O", "P", "Q", "R", "S", "T", "U", "V", "W", "X", "Y", "Z">>
LowerLetters == <<"a", "b", "c", "d", "e", "f", "g", "h", "i", "j", "k", "l", "m", "n", "o", "p", "q", "r", "s", "t", "u", "v", "w", "x", "y", "z">>
Whitespace == {" ", NL}

HexChars == {HexLo[i] : i \in 1..16} \cup {HexUp[i] : i \in 1..16}
HexValues ==
    [c \in HexChars |-> (CHOOSE i \in 1..16 : HexLo[i] = c \/ HexUp[i] = c) - 1]
LowerOf == [c \in {UpperLetters[i] : i \in 1..26} |->
               LowerLetters[CHOOSE i \in 1..26 : UpperLetters[i] = c]]

IsHexChar(c) == c \in HexChars
HexVal(c) == HexValues[c]
IsDecChar(c) == c \in {HexLo[i] : i \in 1..10}
AllHex(s) == \A i \in 1..Len(s) : IsHexChar(s[i])

\* str.lower() of one character
LowerChar(c) == IF c \in DOMAIN LowerOf THEN LowerOf[c] ELSE c

\* str.lower()
Lower(s) == [i \in 1..Len(s) |-> LowerChar(s[i])]

\* str.startswith(p)
StartsWith(s, p) == Len(s) >= Len(p) /\ SubSeq(s, 1, Len(p)) = p

\* s[n:]
DropN(s, n) == IF n >= Len(s) THEN <<>> ELSE SubSeq(s, n + 1, Len(s))

\* s[-n:]
LastN(s, n) == IF n >= Len(s) THEN s ELSE SubSeq(s, Len(s) - n + 1, Len(s))

\* s.lstrip(chars), s.rstrip(chars), s.strip(chars)
RECURSIVE LStrip(_, _)
LStrip(s, chars) ==
    IF Len(s) > 0 /\ s[1] \in chars THEN LStrip(Tail(s), chars) ELSE s
RECURSIVE RStrip(_, _)
RStrip(s, chars) ==
    IF Len(s) > 0 /\ s[Len(s)] \in chars
    THEN RStrip(SubSeq(s, 1, Len(s) - 1), chars)
    ELSE s
Strip(s, chars) == RStrip(LStrip(s, chars), chars)

\* s.split(sep) for a one-character separator: the stretches between the
\* separators, always at least one part
Split(s, sep) ==
    LET at == {i \in 1..Len(s) : s[i] = sep}
        \* the position of the k-th separator, 0 before the first part and
        \* Len(s) + 1 after the last
        cut(k) == IF k = 0 THEN 0
                  ELSE IF k > Cardinality(at) THEN Len(s) + 1
                  ELSE CHOOSE i \in at : Cardinality({j \in at : j < i}) = k - 1
    IN  [k \in 1..(Cardinality(at) + 1) |-> SubSeq(s, cut(k - 1) + 1, cut(k) - 1)]

\* re.match(r"^<prefix>[0-9A-Fa-f]{n}$", s): "$" also matches just before a
\* newline that ends the string
MatchPrefixHex(s, prefix, n) ==
    LET w == Len(prefix) + n
        core == IF Len(s) = w + 1 /\ s[w + 1] = NL THEN SubSeq(s, 1, w) ELSE s
    IN  /\ Len(core) = w
        /\ StartsWith(core, prefix)
        /\ AllHex(DropN(core, Len(prefix)))
MatchHex(s, n) == MatchPrefixHex(s, <<>>, n)

----------------------------------------------------------------------------
(* Python values *)

\* None where an object is expected, and None where a str is expected (a str
\* has one-character elements, so NoneStr is no text)
None == [tag |-> "None"]
NoneStr == <<"None">>
ValueError == [tag |-> "ValueError"]
IsError(v) == v = ValueError

\* Python int
LimbBase == 2^16
PyInt(neg, hi, lo) == [tag |-> "int", neg |-> neg, hi |-> hi, lo |-> lo]
Nat32(hi, lo) == PyInt(FALSE, hi, lo)
IntZero == Nat32(0, 0)
\* n * base + d for n >= 0
MulAdd(n, base, d) ==
    LET t == n.lo * base + d
    IN  PyInt(n.neg, n.hi * base + (t \div LimbBase), t % LimbBase)
RECURSIVE Accumulate(_, _, _)
Accumulate(digits, base, acc) ==
    IF Len(digits) = 0 THEN acc
    ELSE IF digits[1] = "_" THEN Accumulate(Tail(digits), base, acc)
    ELSE Accumulate(Tail(digits), base, MulAdd(acc, base, HexVal(digits[1])))

\* digits, single underscores allowed between digits
DigitBody(d, isDigit(_)) ==
    /\ Len(d) > 0
    /\ isDigit(d[1]) /\ isDigit(d[Len(d)])
    /\ \A i \in 1..Len(d) : isDigit(d[i]) \/ d[i] = "_"
    /\ \A i \in 1..(Len(d) - 1) : ~(d[i] = "_" /\ d[i + 1] = "_")

\* int(text, base): surrounding whitespace, an optional sign, digits (the
\* "0x" prefix that base 16 also admits cannot occur in a validated hex field)
IntOf(text, base, isDigit(_)) ==
    LET s == Strip(text, Whitespace)
        signed == Len(s) > 0 /\ s[1] \in {"+", "-"}
        body == IF signed THEN Tail(s) ELSE s
        mag == Accumulate(body, base, IntZero)
    IN  IF ~DigitBody(body, isDigit) THEN ValueError
        ELSE PyInt(signed /\ s[1] = "-" /\ mag /= IntZero, mag.hi, mag.lo)
IntOfDec(text) == IntOf(text, 10, IsDecChar)
IntOfHex(text) == IntOf(text, 16, IsHexChar)

\* n >= k for a non-negative n and 0 <= k < 65536
GeqSmall(n, k) == n.hi > 0 \/ n.lo >= k

\* str(n)
RECURSIVE DecDigitsOf(_, _)
DecDigitsOf(hi, lo) ==
    LET t == (hi % 10) * LimbBase + lo
        d == HexLo[(t % 10) + 1]
    IN  IF hi = 0 /\ lo < 10 THEN <<d>>
        ELSE Append(DecDigitsOf(hi \div 10, t \div 10), d)
IntStr(n) == (IF n.neg THEN <<"-">> ELSE <<>>) \o DecDigitsOf(n.hi, n.lo)

\* format(n, "08x") for n >= 0
RECURSIVE HexDigitsOf(_)
HexDigitsOf(k) ==
    IF k < 16 THEN <<HexLo[k + 1]>>
    ELSE Append(HexDigitsOf(k \div 16), HexLo[(k % 16) + 1])
RECURSIVE ZeroPad(_, _)
ZeroPad(s, width) == IF Len(s) >= width THEN s ELSE ZeroPad(<<"0">> \o s, width)
Format08x(n) ==
    IF n.hi > 0 THEN ZeroPad(HexDigitsOf(n.hi) \o ZeroPad(HexDigitsOf(n.lo), 4), 8)
    ELSE ZeroPad(HexDigitsOf(n.lo), 8)

----------------------------------------------------------------------------
(* guid.py *)

\* DWAResourceType
ResourceType(letter) == [tag |-> "DWAResourceType", value |-> letter]
MODULE_T == ResourceType("M")
OBJECT_T == ResourceType("O")
FOLDER_T == ResourceType("F")
PROJECT_T == ResourceType("P")
DWAResourceType == {MODULE_T, OBJECT_T, FOLDER_T, PROJECT_T}

ProjectThreshold == 4096

\* a threshold that leaves 0x1000 itself to the folders
_folder_or_project_Strict(hex_id) ==
    LET v == IntOfHex(hex_id)
    IN  IF GeqSmall(v, ProjectThreshold + 1) THEN "P" ELSE "F"

_folder_or_project(hex_id) ==
    LET v == IntOfHex(hex_id)
    IN  IF GeqSmall(v, ProjectThreshold) THEN "P" ELSE "F"

BaselineKey(is_legacy, baseline_id, epoch) ==
    [tag |-> "BaselineKey", is_legacy |-> is_legacy,
     baseline_id |-> baseline_id, epoch |-> epoch]

\* a legacy key that keeps its "ff" prefix in baseline_id
BaselineKey_from_string_KeepPrefix(value) ==
    IF StartsWith(value, <<"f", "f">>)
    THEN BaselineKey(TRUE, value, None)
    ELSE IF StartsWith(value, <<"{">>)
    THEN LET parts == Split(Strip(value, {"{", "}"}), ",")
         IN  IF Len(parts) /= 2 THEN ValueError
             ELSE IF IsError(IntOfDec(parts[2])) THEN ValueError
             ELSE BaselineKey(FALSE, parts[1], IntOfDec(parts[2]))
    ELSE ValueError

BaselineKey_from_string(value) ==
    IF StartsWith(value, <<"f", "f">>)
    THEN BaselineKey(TRUE, DropN(value, 2), None)
    ELSE IF StartsWith(value, <<"{">>)
    THEN LET parts == Split(Strip(value, {"{", "}"}), ",")
         IN  IF Len(parts) /= 2 THEN ValueError
             ELSE IF IsError(IntOfDec(parts[2])) THEN ValueError
             ELSE BaselineKey(FALSE, parts[1], IntOfDec(parts[2]))
    ELSE ValueError

\* a text form that leaves the epoch of a modern key out
BaselineKey_str_NoEpoch(k) ==
    IF k.is_legacy THEN <<"f", "f">> \o k.baseline_id
    ELSE <<"{">> \o k.baseline_id \o <<"}">>

\* BaselineKey.__str__; the f-string writes an absent epoch as "None"
BaselineKey_str(k) ==
    IF k.is_legacy THEN <<"f", "f">> \o k.baseline_id
    ELSE <<"{">> \o k.baseline_id \o <<",">>
             \o (IF k.epoch = None THEN <<"N", "o", "n", "e">> ELSE IntStr(k.epoch))
             \o <<"}">>

GUID(dbid, typecode, parent_key, object_key, baseline_key) ==
    IF ~MatchHex(dbid, 16) THEN ValueError
    ELSE IF ~MatchHex(typecode, 2) THEN ValueError
    ELSE IF ~MatchHex(parent_key, 10) THEN ValueError
    ELSE IF ~MatchPrefixHex(object_key, <<"2", "8">>, 8) THEN ValueError
    ELSE [tag |-> "GUID", dbid |-> Lower(dbid), typecode |-> Lower(typecode),
          parent_key |-> Lower(parent_key), object_key |-> Lower(object_key),
          baseline_key |-> baseline_key]

GUID_from_string(value) ==
    LET parts == Split(value, ":")
        baseline_key == IF Len(parts) = 6 THEN BaselineKey_from_string(parts[6])
                        ELSE None
    IN  IF ~StartsWith(value, <<"A", "B", ":">>) THEN ValueError
        ELSE IF Len(parts) < 5 \/ Len(parts) > 6 THEN ValueError
        ELSE IF IsError(baseline_key) THEN ValueError
        ELSE GUID(parts[2], parts[3], parts[4], parts[5], baseline_key)

\* an object id read from the whole object_key, "28" included
get_object_id_WholeKey(guid) == IntOfHex(guid.object_key)

get_object_id(guid) == IntOfHex(DropN(guid.object_key, 2))

get_resource_type(guid) ==
    LET tc == guid.typecode
    IN  IF tc = <<"2", "1">> THEN MODULE_T
        ELSE IF tc = <<"2", "3">> THEN OBJECT_T
        ELSE IF tc = <<"1", "f">>
        THEN (IF _folder_or_project(LastN(guid.parent_key, 8)) = "P"
              THEN PROJECT_T ELSE FOLDER_T)
        ELSE ValueError

\* a text form that leaves the baseline key out
GUID_str_NoBaseline(guid) ==
    <<"A", "B", ":">> \o guid.dbid \o <<":">> \o guid.typecode \o <<":">>
        \o guid.parent_key \o <<":">> \o guid.object_key

GUID_str(guid) ==
    LET result == <<"A", "B", ":">> \o guid.dbid \o <<":">> \o guid.typecode \o <<":">>
                      \o guid.parent_key \o <<":">> \o guid.object_key
    IN  IF guid.baseline_key /= None
        THEN result \o <<":">> \o BaselineKey_str(guid.baseline_key)
        ELSE result

\* BaselineKey.__eq__
BaselineKey_eq(self, other) ==
    /\ self.is_legacy = other.is_legacy
    /\ self.baseline_id = other.baseline_id
    /\ self.epoch = other.epoch

\* a == b for two Optional[BaselineKey]: None equals only None
OptionalBaselineKey_eq(a, b) ==
    IF a = None \/ b = None THEN a = None /\ b = None
    ELSE BaselineKey_eq(a, b)

\* hash(t) of a tuple t: equal tuples hash alike (that different tuples may
\* hash alike too is left out)
Hash(t) == [tag |-> "hash", of |-> t]

\* BaselineKey.__hash__, and hash(None)
BaselineKey_hash(self) ==
    Hash([is_legacy |-> self.is_legacy, baseline_id |-> self.baseline_id,
          epoch |-> self.epoch])
OptionalBaselineKey_hash(k) ==
    IF k = None THEN Hash(None) ELSE BaselineKey_hash(k)

\* an equality that looks at the four positional fields only
GUID_eq_IgnoreBaseline(self, other) ==
    /\ self.dbid = other.dbid
    /\ self.typecode = other.typecode
    /\ self.parent_key = other.parent_key
    /\ self.object_key = other.object_key

\* GUID.__eq__
GUID_eq(self, other) ==
    /\ self.dbid = other.dbid
    /\ self.typecode = other.typecode
    /\ self.parent_key = other.parent_key
    /\ self.object_key = other.object_key
    /\ OptionalBaselineKey_eq(self.baseline_key, other.baseline_key)

\* GUID.__hash__
GUID_hash(self) ==
    Hash([dbid |-> self.dbid, typecode |-> self.typecode,
          parent_key |-> self.parent_key, object_key |-> self.object_key,
          baseline_key |-> OptionalBaselineKey_hash(self.baseline_key)])

----------------------------------------------------------------------------
(* oslc/urn.py *)

URN(dbid, resource_type, key, object_no, module_key) ==
    IF ~MatchHex(dbid, 16) THEN ValueError
    ELSE IF resource_type \notin DWAResourceType THEN ValueError
    ELSE IF resource_type = OBJECT_T /\ (object_no = None \/ module_key = NoneStr)
    THEN ValueError
    ELSE IF resource_type = OBJECT_T /\ object_no.neg THEN ValueError
    ELSE IF resource_type = OBJECT_T /\ ~MatchHex(module_key, 8) THEN ValueError
    ELSE IF resource_type /= OBJECT_T /\ ~MatchHex(key, 8) THEN ValueError
    ELSE [tag |-> "URN", dbid |-> Lower(dbid), resource_type |-> resource_type,
          key |-> Lower(key), object_no |-> object_no,
          module_key |-> IF module_key /= NoneStr /\ module_key /= <<>>
                         THEN Lower(module_key) ELSE NoneStr]

\* _DWA_URN_RE.match(value): the groups dbid, kind and rest, or None.  "."
\* matches no newline and "$" matches at the end or before a final newline.
UrnSchemes == {<<"u", "r", "n", ":", "r", "a", "t", "i", "o", "n", "a", "l", ":", ":", "1", "-">>, <<"u", "r", "n", ":", "t", "e", "l", "e", "l", "o", "g", "i", "c", ":", ":", "1", "-">>}
UrnMatch(value) ==
    LET core == IF Len(value) > 0 /\ value[Len(value)] = NL
                THEN SubSeq(value, 1, Len(value) - 1) ELSE value
        heads == {p \in UrnSchemes : StartsWith(core, p)}
        body == DropN(core, Len(CHOOSE p \in heads : TRUE))
    IN  IF heads = {} THEN None
        ELSE IF Len(body) < 20 THEN None
        ELSE IF ~AllHex(SubSeq(body, 1, 16)) THEN None
        ELSE IF body[17] /= "-" \/ body[19] /= "-" THEN None
        ELSE IF body[18] \notin {"P", "F", "M", "O"} THEN None
        ELSE IF \E i \in 20..Len(body) : body[i] = NL THEN None
        ELSE [tag |-> "Match", dbid |-> SubSeq(body, 1, 16), kind |-> body[18],
              rest |-> DropN(body, 19)]

URN_from_string(value) ==
    LET m == UrnMatch(value)
        parts == Split(m.rest, "-")
        object_no == IntOfDec(parts[1])
        module_key == Lower(parts[2])
    IN  IF m = None THEN ValueError
        ELSE IF m.kind = "O"
        THEN (IF Len(parts) /= 2 THEN ValueError
              ELSE IF IsError(object_no) THEN ValueError
              ELSE URN(Lower(m.dbid), OBJECT_T, module_key, object_no, module_key))
        ELSE IF ~MatchHex(m.rest, 8) THEN ValueError
        ELSE URN(Lower(m.dbid), ResourceType(m.kind), m.rest, None, NoneStr)

\* a key taken from the front of parent_key
URN_from_guid_FirstEight(guid) ==
    LET resource_type == get_resource_type(guid)
        key == SubSeq(guid.parent_key, 1, 8)
    IN  IF IsError(resource_type) THEN ValueError
        ELSE IF resource_type = OBJECT_T
        THEN URN(guid.dbid, resource_type, key, get_object_id(guid), key)
        ELSE URN(guid.dbid, resource_type, key, None, NoneStr)

URN_from_guid(guid) ==
    LET resource_type == get_resource_type(guid)
        key == LastN(guid.parent_key, 8)
    IN  IF IsError(resource_type) THEN ValueError
        ELSE IF resource_type = OBJECT_T
        THEN URN(guid.dbid, resource_type, key, get_object_id(guid), key)
        ELSE URN(guid.dbid, resource_type, key, None, NoneStr)

\* a text form that writes the key for every kind
URN_str_KeyOnly(urn) ==
    <<"u", "r", "n", ":", "r", "a", "t", "i", "o", "n", "a", "l", ":", ":", "1", "-">>
        \o urn.dbid \o <<"-">> \o <<urn.resource_type.value>> \o <<"-">> \o urn.key

URN_str(urn) ==
    LET base == <<"u", "r", "n", ":", "r", "a", "t", "i", "o", "n", "a", "l", ":", ":", "1", "-">> \o urn.dbid \o <<"-">>
                    \o <<urn.resource_type.value>> \o <<"-">>
    IN  IF urn.resource_type = OBJECT_T
        THEN base \o IntStr(urn.object_no) \o <<"-">> \o urn.module_key
        ELSE base \o urn.key

\* the error of a derived operation applied to a URN of the wrong kind
WrongKindError == [tag |-> "WrongKindError"]

\* a derivation that accepts a URN of any kind
module_urn_from_object_urn_AnyKind(urn) ==
    URN(urn.dbid, MODULE_T, urn.key, None, NoneStr)

\* module_urn_from_object_urn: the module of an object URN
module_urn_from_object_urn(urn) ==
    IF urn.resource_type /= OBJECT_T THEN WrongKindError
    ELSE URN(urn.dbid, MODULE_T, urn.module_key, None, NoneStr)

\* a conversion that files an object under the key prefix of its own type code
GUID_from_urn_ObjectPrefix(urn) ==
    LET resource_type == urn.resource_type
    IN  IF resource_type = OBJECT_T
        THEN GUID(urn.dbid, <<"2", "3">>, <<"2", "3">> \o urn.module_key,
                  <<"2", "8">> \o Format08x(urn.object_no), None)
        ELSE IF resource_type = MODULE_T
        THEN GUID(urn.dbid, <<"2", "1">>, <<"2", "1">> \o urn.key,
                  <<"2", "8", "f", "f", "f", "f", "f", "f", "f", "f">>, None)
        ELSE GUID(urn.dbid, <<"1", "f">>, <<"1", "f">> \o urn.key,
                  <<"2", "8", "f", "f", "f", "f", "f", "f", "f", "f">>, None)

GUID_from_urn(urn) ==
    LET resource_type == urn.resource_type
    IN  IF resource_type = OBJECT_T
        THEN GUID(urn.dbid, <<"2", "3">>, <<"2", "1">> \o urn.module_key,
                  <<"2", "8">> \o Format08x(urn.object_no), None)
        ELSE IF resource_type = MODULE_T
        THEN GUID(urn.dbid, <<"2", "1">>, <<"2", "1">> \o urn.key, <<"2", "8", "f", "f", "f", "f", "f", "f", "f", "f">>, None)
        ELSE IF resource_type = PROJECT_T
        THEN GUID(urn.dbid, <<"1", "f">>, <<"1", "f">> \o urn.key, <<"2", "8", "f", "f", "f", "f", "f", "f", "f", "f">>, None)
        ELSE IF resource_type = FOLDER_T
        THEN GUID(urn.dbid, <<"1", "f">>, <<"1", "f">> \o urn.key, <<"2", "8", "f", "f", "f", "f", "f", "f", "f", "f">>, None)
        ELSE ValueError

----------------------------------------------------------------------------
(* Codec inputs *)

DbidLower == <<"4", "8", "b", "e", "d", "a", "4", "4", "7", "c", "f", "b", "0", "c", "2", "7">>
DbidUpper == <<"4", "8", "B", "E", "D", "A", "4", "4", "7", "C", "F", "B", "0", "C", "2", "7">>
GuidDbids == {DbidLower, DbidUpper}
GuidTypecodes == {<<"2", "1">>, <<"2", "3">>, <<"1", "f">>, <<"1", "F">>, <<"2", "2">>}
GuidParentKeys ==
    {<<"2", "1", "0", "0", "0", "0", "3", "c", "2", "0">>, <<"1", "f", "0", "0", "0", "0", "5", "0", "0", "d">>, <<"1", "f", "0", "0", "0", "0", "0", "f", "f", "f">>, <<"1", "f", "0", "0", "0", "0", "1", "0", "0", "0">>,
     <<"1", "F", "0", "0", "0", "0", "5", "0", "0", "D">>, <<"1", "f", "1", "0", "0", "0", "0", "0", "0", "0", "\n">>}
GuidObjectKeys ==
    {<<"2", "8", "f", "f", "f", "f", "f", "f", "f", "f">>, <<"2", "8", "0", "0", "0", "0", "0", "0", "0", "2">>, <<"2", "8", "0", "0", "0", "0", "0", "B", "A", "6">>, <<"2", "8", "f", "f", "f", "f", "f", "f", "f", "f", "\n">>}
GuidBaselines == {<<"{", "n", "u", "l", "l", ",", "0", "}">>, <<"{", "n", "u", "l", "l", ",", "0", "0", "}">>, <<"f", "f", "0", "0", "0", "0", "0", "0", "0", "a">>}

GuidHead(d, t, p, o) ==
    <<"A", "B", ":">> \o d \o <<":">> \o t \o <<":">> \o p \o <<":">> \o o

MalformedGuidTexts ==
    {<<>>, <<"A", "B">>, <<"X", "Y", ":", "4", "8", "b", "e", "d", "a", "4", "4", "7", "c", "f", "b", "0", "c", "2", "7", ":", "2", "1", ":", "2", "1", "0", "0", "0", "0", "3", "c", "2", "0", ":", "2", "8", "f", "f", "f", "f", "f", "f", "f", "f">>,
     <<"A", "B", ":", "4", "8", "b", "e", "d", "a", "4", "4", "7", "c", "f", "b", "0", "c", "2", "7", ":", "2", "1", ":", "2", "1", "0", "0", "0", "0", "3", "c", "2", "0">>,
     <<"A", "B", ":", "4", "8", "b", "e", "d", "a", "4", "4", "7", "c", "f", "b", "0", "c", "2", "7", ":", "2", "1", ":", "2", "1", "0", "0", "0", "0", "3", "c", "2", "0", ":", "2", "8", "f", "f", "f", "f", "f", "f", "f", "f", ":", "{", "n", "u", "l", "l", ",", "0", "}", ":", "x">>,
     <<"A", "B", ":", "4", "8", "b", "e", "d", "a", "4", "4", "7", "c", "f", "b", "0", "c", "2", ":", "2", "1", ":", "2", "1", "0", "0", "0", "0", "3", "c", "2", "0", ":", "2", "8", "f", "f", "f", "f", "f", "f", "f", "f">>,
     <<"A", "B", ":", "4", "8", "b", "e", "d", "a", "4", "4", "7", "c", "f", "b", "0", "c", "2", "g", ":", "2", "1", ":", "2", "1", "0", "0", "0", "0", "3", "c", "2", "0", ":", "2", "8", "f", "f", "f", "f", "f", "f", "f", "f">>,
     <<"A", "B", ":", "4", "8", "b", "e", "d", "a", "4", "4", "7", "c", "f", "b", "0", "c", "2", "7", ":", "2", ":", "2", "1", "0", "0", "0", "0", "3", "c", "2", "0", ":", "2", "8", "f", "f", "f", "f", "f", "f", "f", "f">>,
     <<"A", "B", ":", "4", "8", "b", "e", "d", "a", "4", "4", "7", "c", "f", "b", "0", "c", "2", "7", ":", "2", "1", ":", "2", "1", "0", "0", "3", "c", "2", "0", ":", "2", "8", "f", "f", "f", "f", "f", "f", "f", "f">>,
     <<"A", "B", ":", "4", "8", "b", "e", "d", "a", "4", "4", "7", "c", "f", "b", "0", "c", "2", "7", ":", "2", "1", ":", "2", "1", "0", "0", "0", "0", "3", "c", "2", "0", ":", "2", "9", "f", "f", "f", "f", "f", "f", "f", "f">>,
     <<"A", "B", ":", "4", "8", "b", "e", "d", "a", "4", "4", "7", "c", "f", "b", "0", "c", "2", "7", ":", "2", "1", ":", "2", "1", "0", "0", "0", "0", "3", "c", "2", "0", ":", "2", "8", "f", "f", "f", "f", "f", "f", "f", "f", ":", "x", "x">>,
     <<"A", "B", ":", "4", "8", "b", "e", "d", "a", "4", "4", "7", "c", "f", "b", "0", "c", "2", "7", ":", "2", "1", ":", "2", "1", "0", "0", "0", "0", "3", "c", "2", "0", ":", "2", "8", "f", "f", "f", "f", "f", "f", "f", "f", ":">>}

GuidTexts ==
    {GuidHead(d, t, p, o) :
        d \in GuidDbids, t \in GuidTypecodes, p \in GuidParentKeys,
        o \in GuidObjectKeys}
    \cup {GuidHead(d, t, p, o) \o <<":">> \o b :
        d \in GuidDbids, t \in GuidTypecodes, p \in GuidParentKeys,
        o \in GuidObjectKeys, b \in GuidBaselines}
    \cup MalformedGuidTexts

BaselineTexts ==
    {<<"{", "n", "u", "l", "l", ",", "0", "}">>, <<"{", "1", "0", "0", "0", "0", "1", "4", ",", "1", "7", "0", "9", "0", "2", "6", "2", "4", "2", "}">>, <<"{", "1", "0", "0", "0", "0", "1", "d", ",", "1", "7", "4", "2", "5", "6", "5", "4", "7", "1", "}">>,
     <<"f", "f", "0", "0", "0", "0", "0", "0", "0", "a">>, <<"f", "f">>, <<"f", "f", "X", "Y", "Z">>, <<"{", ",", "5", "}">>, <<"{", "n", "u", "l", "l", ",", "-", "1", "}">>,
     <<"{", "n", "u", "l", "l", ",", "0", "0", "}">>, <<"{", "n", "u", "l", "l", ",", "0">>, <<"{", "{", "n", "u", "l", "l", ",", "0", "}", "}">>, <<"{", "n", "u", "l", "l", ",", "+", "1", "}">>,
     <<"{", "n", "u", "l", "l", ",", " ", "1", "}">>, <<"{", "n", "u", "l", "l", ",", "1", "_", "0", "}">>, <<"{", "n", "u", "l", "l", ",", "-", "0", "}">>, <<"{", "n", "u", "l", "l", ",", "0", "\n", "}">>,
     <<"{", "n", "u", "l", "l", "}">>, <<"{", "a", ",", "b", ",", "c", "}">>, <<"{", "n", "u", "l", "l", ",", "x", "}">>, <<"{", ",", "}">>, <<"{">>,
     <<"x", "x">>, <<"F", "F", "0", "0">>, <<>>}

UrnHeads ==
    {<<"u", "r", "n", ":", "r", "a", "t", "i", "o", "n", "a", "l", ":", ":", "1", "-">>, <<"u", "r", "n", ":", "t", "e", "l", "e", "l", "o", "g", "i", "c", ":", ":", "1", "-">>, <<"u", "r", "n", ":", "o", "t", "h", "e", "r", ":", ":", "1", "-">>}
UrnTails ==
    {<<"P", "-", "0", "0", "0", "0", "5", "0", "0", "d">>, <<"P", "-", "0", "0", "0", "0", "0", "0", "0", "3">>, <<"F", "-", "0", "0", "0", "0", "0", "0", "0", "3">>, <<"F", "-", "0", "0", "0", "0", "5", "0", "0", "d">>,
     <<"M", "-", "0", "0", "0", "0", "3", "c", "2", "0">>, <<"M", "-", "0", "0", "0", "0", "3", "C", "2", "0">>, <<"M", "-", "0", "0", "0", "0", "3", "c", "2", "0", "\n">>, <<"M", "-", "0", "0", "0", "0">>,
     <<"X", "-", "0", "0", "0", "0", "3", "c", "2", "0">>, <<"O", "-", "2", "-", "0", "0", "0", "0", "3", "c", "2", "0">>, <<"O", "-", "1", "3", "-", "0", "0", "0", "0", "f", "a", "0", "0">>,
     <<"O", "-", "0", "2", "-", "0", "0", "0", "0", "3", "c", "2", "0">>, <<"O", "-", "+", "2", "-", "0", "0", "0", "0", "3", "c", "2", "0">>, <<"O", "-", "2", "-", "0", "0", "0", "0", "3", "C", "2", "0">>,
     <<"O", "-", "4", "2", "9", "4", "9", "6", "7", "2", "9", "5", "-", "0", "0", "0", "0", "3", "c", "2", "0">>, <<"O", "-", "4", "2", "9", "4", "9", "6", "7", "2", "9", "6", "-", "0", "0", "0", "0", "3", "c", "2", "0">>,
     <<"O", "-", "2", "-", "0", "0", "0", "0", "3", "c", "2", "0", "\n">>, <<"O", "-", "x", "-", "0", "0", "0", "0", "3", "c", "2", "0">>, <<"O", "-", "2", "-", "0", "0", "0", "0", "3", "c", "2">>, <<"O", "-", "2">>,
     <<"O", "-", "1", "-", "2", "-", "0", "0", "0", "0", "3", "c", "2", "0">>, <<"M", "-">>}
UrnTexts ==
    {h \o d \o <<"-">> \o t : h \in UrnHeads, d \in GuidDbids, t \in UrnTails}

UrnKeys ==
    {<<"0", "0", "0", "0", "3", "c", "2", "0">>, <<"0", "0", "0", "0", "5", "0", "0", "d">>, <<"0", "0", "0", "0", "0", "0", "0", "3">>, <<"0", "0", "0", "0", "0", "f", "f", "f">>,
     <<"0", "0", "0", "0", "1", "0", "0", "0">>, <<"0", "0", "0", "0", "F", "A", "0", "0">>, <<"0", "0", "0", "0", "3", "c", "2", "0", "\n">>, <<"z", "z">>}
UrnObjectNos ==
    {None, Nat32(0, 0), Nat32(0, 2), Nat32(65535, 65535), Nat32(65536, 0),
     PyInt(TRUE, 0, 1)}
UrnModuleKeys == {NoneStr, <<>>, <<"0", "0", "0", "0", "3", "c", "2", "0">>, <<"0", "0", "0", "0", "f", "a", "0", "0">>}
UrnArgs ==
    [dbid : GuidDbids, resource_type : DWAResourceType, key : UrnKeys,
     object_no : UrnObjectNos, module_key : UrnModuleKeys]

CodecInputs ==
    {[kind |-> "guid_text", text |-> t] : t \in GuidTexts}
    \cup {[kind |-> "baseline_text", text |-> t] : t \in BaselineTexts}
    \cup {[kind |-> "urn_text", text |-> t] : t \in UrnTexts}
    \cup {[kind |-> "urn_args", args |-> a] : a \in UrnArgs}

----------------------------------------------------------------------------
(* Codec calls: cIn is the argument of the first call, cOps the calls made *)
(* so far, each applied to the result of the one before, cVals their       *)
(* results.                                                                *)

VARIABLES cIn, cOps, cVals

(* Client state: identity is DWAClient._identity, a map from GUID to node   *)
(* reference; heap holds the RemoteResource objects, a reference being an  *)
(* index into it; ret is the last call with its argument and what it       *)
(* returned or raised; resolved collects every (GUID, reference) pair that *)
(* a lookup in the identity map has produced; calls counts the calls made. *)
VARIABLES identity, heap, ret, resolved, calls

(* Callers and generators in progress: threads holds, for each of two       *)
(* concurrent callers, the statement it has reached and its local values;   *)
(* gen is the walk() generator a consumer is iterating, with its suspended  *)
(* frames; remote is the hierarchy the server holds while it is iterated.   *)
VARIABLES threads, gen, remote

codecVars == <<cIn, cOps, cVals>>
graphVars == <<identity, heap, ret, resolved, calls>>
stepVars == <<threads, gen, remote>>
vars == <<cIn, cOps, cVals, identity, heap, ret, resolved, calls, threads, gen,
          remote>>

MaxCalls == 3

Call(op, result) ==
    /\ Len(cOps) < MaxCalls
    /\ cOps' = Append(cOps, op)
    /\ cVals' = Append(cVals, result)
    /\ UNCHANGED <<cIn, graphVars, stepVars>>

LastOp == cOps[Len(cOps)]
LastVal == cVals[Len(cVals)]
\* the last call returned a GUID, a URN, a BaselineKey
HasGuid ==
    /\ cOps /= <<>>
    /\ LastOp \in {"GUID.from_string", "GUID.from_urn"}
    /\ ~IsError(LastVal)
HasUrn ==
    /\ cOps /= <<>>
    /\ LastOp \in {"URN", "URN.from_string", "URN.from_guid",
                  "module_urn_from_object_urn"}
    /\ ~IsError(LastVal)
    /\ LastVal /= WrongKindError
HasBaselineKey ==
    /\ cOps /= <<>>
    /\ LastOp = "BaselineKey.from_string"
    /\ ~IsError(LastVal)

CallBaselineKeyFromString ==
    /\ cOps = <<>> /\ cIn.kind = "baseline_text"
    /\ Call("BaselineKey.from_string", BaselineKey_from_string(cIn.text))

CallBaselineKeyStr ==
    /\ HasBaselineKey
    /\ Call("BaselineKey.__str__", BaselineKey_str(LastVal))

CallGuidFromString ==
    /\ cOps = <<>> /\ cIn.kind = "guid_text"
    /\ Call("GUID.from_string", GUID_from_string(cIn.text))

CallGuidStr ==
    /\ HasGuid
    /\ Call("GUID.__str__", GUID_str(LastVal))

CallGetResourceType ==
    /\ HasGuid
    /\ Call("GUID.get_resource_type", get_resource_type(LastVal))

CallGetObjectId ==
    /\ HasGuid
    /\ Call("GUID.get_object_id", get_object_id(LastVal))

CallUrnFromGuid ==
    /\ HasGuid
    /\ Call("URN.from_guid", URN_from_guid(LastVal))

CallUrn ==
    /\ cOps = <<>> /\ cIn.kind = "urn_args"
    /\ Call("URN", URN(cIn.args.dbid, cIn.args.resource_type, cIn.args.key,
                       cIn.args.object_no, cIn.args.module_key))

CallUrnFromString ==
    /\ cOps = <<>> /\ cIn.kind = "urn_text"
    /\ Call("URN.from_string", URN_from_string(cIn.text))

CallUrnStr ==
    /\ HasUrn
    /\ Call("URN.__str__", URN_str(LastVal))

CallGuidFromUrn ==
    /\ HasUrn
    /\ Call("GUID.from_urn", GUID_from_urn(LastVal))

CallModuleUrnFromObjectUrn ==
    /\ HasUrn
    /\ Call("module_urn_from_object_urn", module_urn_from_object_urn(LastVal))

NoCall == [op |-> "None", arg |-> None, val |-> None, fetched |-> <<>>]

\* a caller that has not called yet
IdleThread ==
    [pc |-> "idle", op |-> "None", guid |-> None, node |-> None, proxy |-> 0,
     self |-> 0, refresh |-> FALSE, nodes |-> <<>>, acc |-> <<>>,
     held |-> <<>>, fetched |-> <<>>, val |-> None]
Callers == {1, 2}

\* no generator
NoWalk == [state |-> "none", frames |-> <<>>, yielded |-> <<>>, raised |-> None]

GraphInit ==
    /\ identity = <<>>
    /\ heap = <<>>
    /\ ret = NoCall
    /\ resolved = {}
    /\ calls = 0
    /\ threads = [t \in Callers |-> IdleThread]
    /\ gen = NoWalk
    /\ remote = None

CodecInit ==
    /\ cIn \in CodecInputs
    /\ cOps = <<>>
    /\ cVals = <<>>
    /\ GraphInit

CodecNext ==
    \/ CallBaselineKeyFromString
    \/ CallBaselineKeyStr
    \/ CallGuidFromString
    \/ CallGuidStr
    \/ CallGetResourceType
    \/ CallGetObjectId
    \/ CallUrnFromGuid
    \/ CallUrn
    \/ CallUrnFromString
    \/ CallUrnStr
    \/ CallGuidFromUrn
    \/ CallModuleUrnFromObjectUrn

SpecCodec == CodecInit /\ [][CodecNext]_vars

----------------------------------------------------------------------------
(* Canonical text: cIn holds an identifier text, the calls parse it, write  *)
(* the GUID, parse what was written, and then write the second GUID or      *)
(* compare it with the first                                                *)

CanonTexts ==
    GuidTexts
    \cup {GuidHead(DbidUpper, <<"1", "F">>, <<"1", "F", "0", "0", "0", "0", "5", "0", "0", "D">>, <<"2", "8", "F", "F", "F", "F", "F", "F", "F", "F">>)
              \o <<":">> \o b : b \in BaselineTexts}
CanonInputs == {[kind |-> "guid_text", text |-> t] : t \in CanonTexts}

\* a call of the chain, which its guards end after the fourth
CanonCall(op, result) ==
    /\ cOps' = Append(cOps, op)
    /\ cVals' = Append(cVals, result)
    /\ UNCHANGED <<cIn, graphVars, stepVars>>

CanonParse ==
    /\ cOps = <<>>
    /\ CanonCall("GUID.from_string", GUID_from_string(cIn.text))

CanonStr ==
    /\ cOps = <<"GUID.from_string">> /\ ~IsError(cVals[1])
    /\ CanonCall("GUID.__str__", GUID_str(cVals[1]))

CanonReparse ==
    /\ cOps = <<"GUID.from_string", "GUID.__str__">>
    /\ CanonCall("GUID.from_string", GUID_from_string(cVals[2]))

Reparsed ==
    /\ cOps = <<"GUID.from_string", "GUID.__str__", "GUID.from_string">>
    /\ ~IsError(cVals[3])

CanonStrAgain ==
    /\ Reparsed
    /\ CanonCall("GUID.__str__", GUID_str(cVals[3]))

CanonCompare ==
    /\ Reparsed
    /\ CanonCall("GUID.__eq__", GUID_eq(cVals[3], cVals[1]))

CanonInit ==
    /\ cIn \in CanonInputs
    /\ cOps = <<>>
    /\ cVals = <<>>
    /\ GraphInit

CanonNext ==
    \/ CanonParse
    \/ CanonStr
    \/ CanonReparse
    \/ CanonStrAgain
    \/ CanonCompare

SpecCanon == CanonInit /\ [][CanonNext]_vars

----------------------------------------------------------------------------
(* Comparing two GUIDs: cIn holds two identifier texts, the calls parse the *)
(* left one, then the right one, then compare the two GUIDs or their hashes *)

EqDbids == GuidDbids
EqTypecodes == {<<"1", "f">>, <<"1", "F">>}
EqParentKeys == {<<"1", "f", "0", "0", "0", "0", "5", "0", "0", "d">>, <<"1", "F", "0", "0", "0", "0", "5", "0", "0", "D">>, <<"1", "f", "0", "0", "0", "0", "0", "0", "0", "3">>}
EqObjectKeys == {<<"2", "8", "f", "f", "f", "f", "f", "f", "f", "f">>, <<"2", "8", "F", "F", "F", "F", "F", "F", "F", "F">>, <<"2", "8", "0", "0", "0", "0", "0", "0", "0", "2">>}
EqBaselines == {<<"{", "n", "u", "l", "l", ",", "0", "}">>, <<"{", "n", "u", "l", "l", ",", "0", "0", "}">>, <<"{", "1", "a", ",", "0", "}">>, <<"{", "1", "A", ",", "0", "}">>, <<"f", "f", "0", "0", "0", "0", "0", "0", "0", "a">>, <<"f", "f", "0", "0", "0", "0", "0", "0", "0", "A">>}
EqLeftTexts ==
    {GuidHead(d, t, p, o) :
        d \in EqDbids, t \in EqTypecodes, p \in EqParentKeys, o \in EqObjectKeys}
    \cup {GuidHead(d, t, p, o) \o <<":">> \o b :
        d \in EqDbids, t \in EqTypecodes, p \in EqParentKeys, o \in EqObjectKeys,
        b \in EqBaselines}
EqRightTexts ==
    {GuidHead(DbidLower, <<"1", "f">>, <<"1", "f", "0", "0", "0", "0", "5", "0", "0", "d">>, <<"2", "8", "f", "f", "f", "f", "f", "f", "f", "f">>) \o b :
        b \in {<<>>, <<":", "{", "n", "u", "l", "l", ",", "0", "}">>, <<":", "{", "1", "a", ",", "0", "}">>, <<":", "f", "f", "0", "0", "0", "0", "0", "0", "0", "a">>}}
EqInputs ==
    {[kind |-> "guid_pair", left |-> a, right |-> b] :
        a \in EqLeftTexts, b \in EqRightTexts}

ParseLeft ==
    /\ cOps = <<>>
    /\ Call("GUID.from_string", GUID_from_string(cIn.left))

ParseRight ==
    /\ cOps = <<"GUID.from_string">> /\ ~IsError(LastVal)
    /\ Call("GUID.from_string", GUID_from_string(cIn.right))

BothParsed ==
    /\ cOps = <<"GUID.from_string", "GUID.from_string">>
    /\ ~IsError(cVals[1]) /\ ~IsError(cVals[2])

CallGuidEq ==
    /\ BothParsed
    /\ Call("GUID.__eq__", GUID_eq(cVals[1], cVals[2]))

\* hash(a) == hash(b)
CallGuidHashEq ==
    /\ BothParsed
    /\ Call("GUID.__hash__", GUID_hash(cVals[1]) = GUID_hash(cVals[2]))

EqInit ==
    /\ cIn \in EqInputs
    /\ cOps = <<>>
    /\ cVals = <<>>
    /\ GraphInit

EqNext ==
    \/ ParseLeft
    \/ ParseRight
    \/ CallGuidEq
    \/ CallGuidHashEq

SpecEq == EqInit /\ [][EqNext]_vars

----------------------------------------------------------------------------
(* Properties of the codecs, checked under SpecCodec *)

NoUpper(s) == \A i \in 1..Len(s) : \A j \in 1..26 : s[i] /= UpperLetters[j]
HexDigitsIn(s) == SelectSeq(s, IsHexChar)
\* the last 8 hex digits of a field, as a number
Last8Hex(s) == LastN(HexDigitsIn(s), 8)

\* a decimal integer as str() writes it
CanonicalDecimal(e) ==
    LET d == IF Len(e) > 0 /\ e[1] = "-" THEN Tail(e) ELSE e
    IN  /\ Len(d) > 0
        /\ \A i \in 1..Len(d) : IsDecChar(d[i])
        /\ d[1] = "0" => (Len(d) = 1 /\ d = e)

\* "ff..." or "{id,epoch}" with one pair of braces, an id that does not
\* begin with a brace and a canonical epoch
CanonicalBaselineText(b) ==
    \/ StartsWith(b, <<"f", "f">>)
    \/ /\ Len(b) >= 2 /\ b[1] = "{" /\ b[Len(b)] = "}"
       /\ LET parts == Split(SubSeq(b, 2, Len(b) - 1), ",")
          IN  /\ Len(parts) = 2
              /\ parts[1] = <<>> \/ parts[1][1] \notin {"{", "}"}
              /\ CanonicalDecimal(parts[2])

CanonicalGuidText(t) ==
    LET parts == Split(t, ":")
    IN  /\ \A i \in 2..Len(parts) : i <= 5 => NoUpper(parts[i])
        /\ Len(parts) = 6 => CanonicalBaselineText(parts[6])

\* C3 as stated: str(GUID.from_string(s)) == s for every text s that
\* GUID.from_string accepts.
C3_RoundTripEveryAccepted ==
    cOps = <<"GUID.from_string", "GUID.__str__">> => cVals[2] = cIn.text

\* C3 amended: str(GUID.from_string(s)) == s for every accepted text s whose
\* four positional fields hold no upper-case letter and whose baseline text,
\* if any, is "ff..." or "{id,epoch}" in canonical form.
C3_RoundTripCanonical ==
    (cOps = <<"GUID.from_string", "GUID.__str__">> /\ CanonicalGuidText(cIn.text))
        => cVals[2] = cIn.text

C3_Witness ==
    /\ cOps = <<"GUID.from_string", "GUID.__str__">>
    /\ CanonicalGuidText(cIn.text)
    /\ cVals[1].baseline_key /= None
    /\ ~cVals[1].baseline_key.is_legacy

CanonicalUrnText(t) ==
    LET body == DropN(t, 16)
        rest == DropN(body, 19)
    IN  /\ StartsWith(t, <<"u", "r", "n", ":", "r", "a", "t", "i", "o", "n", "a", "l", ":", ":", "1", "-">>)
        /\ NoUpper(SubSeq(body, 1, 16))
        /\ NoUpper(rest)
        /\ t[Len(t)] /= NL
        /\ body[18] = "O" => CanonicalDecimal(Split(rest, "-")[1])

\* C4 as stated: str(URN.from_string(s)) == s for every text s that
\* URN.from_string accepts, scheme rational or telelogic.
C4_RoundTripEveryAccepted ==
    cOps = <<"URN.from_string", "URN.__str__">> => cVals[2] = cIn.text

\* C4 amended: str(URN.from_string(s)) == s for every accepted text s with
\* scheme rational, lower-case hex digits, a canonical decimal object number
\* and no trailing newline.
C4_RoundTripCanonical ==
    (cOps = <<"URN.from_string", "URN.__str__">> /\ CanonicalUrnText(cIn.text))
        => cVals[2] = cIn.text

C4_Witness ==
    /\ cOps = <<"URN.from_string", "URN.__str__">>
    /\ CanonicalUrnText(cIn.text)
    /\ cVals[1].resource_type = OBJECT_T

\* C5 as stated: str(BaselineKey.from_string(s)) == s for every text s that
\* BaselineKey.from_string accepts.
C5_RoundTripEveryAccepted ==
    cOps = <<"BaselineKey.from_string", "BaselineKey.__str__">>
        => cVals[2] = cIn.text

\* C5 amended: str(BaselineKey.from_string(s)) == s for every accepted text s
\* that is "ff..." or "{id,epoch}" with one pair of braces, an id that does
\* not begin with a brace and an epoch in canonical decimal form.
C5_RoundTripCanonical ==
    (/\ cOps = <<"BaselineKey.from_string", "BaselineKey.__str__">>
     /\ CanonicalBaselineText(cIn.text))
        => cVals[2] = cIn.text

C5_Witness ==
    /\ cOps = <<"BaselineKey.from_string", "BaselineKey.__str__">>
    /\ CanonicalBaselineText(cIn.text)
    /\ ~cVals[1].is_legacy
    /\ cVals[1].epoch /= IntZero

\* a URN as the public form defines it: an 8-hex key, and an object number
\* and a module key (equal to the key) exactly for kind object
WellFormedUrn(u) ==
    /\ Len(u.key) = 8 /\ AllHex(u.key)
    /\ u.resource_type = OBJECT_T =>
          (u.object_no /= None /\ ~u.object_no.neg /\ u.module_key = u.key)
    /\ u.resource_type /= OBJECT_T =>
          (u.object_no = None /\ u.module_key = NoneStr)

\* the GUID form can carry u and names the kind u asserts
Convertible(u) ==
    \/ u.resource_type = MODULE_T
    \/ u.resource_type = OBJECT_T /\ u.object_no.hi < LimbBase
    \/ u.resource_type = PROJECT_T /\ GeqSmall(IntOfHex(u.key), ProjectThreshold)
    \/ u.resource_type = FOLDER_T /\ ~GeqSmall(IntOfHex(u.key), ProjectThreshold)

UrnMade == cOps /= <<>> /\ cOps[1] \in {"URN", "URN.from_string"}
ConvertedToGuid == UrnMade /\ Len(cOps) >= 2 /\ cOps[2] = "GUID.from_urn"
ConvertedBack == ConvertedToGuid /\ Len(cOps) >= 3 /\ cOps[3] = "URN.from_guid"

\* C6 as stated: for every URN u of kind module, project, folder or object,
\* with any 8-hex key and any non-negative object number,
\* URN.from_guid(GUID.from_urn(u)) succeeds and equals u.
C6_ConversionRoundTripEveryUrn ==
    /\ (ConvertedToGuid /\ WellFormedUrn(cVals[1])) => ~IsError(cVals[2])
    /\ (ConvertedBack /\ WellFormedUrn(cVals[1])) => cVals[3] = cVals[1]

\* C6 amended: URN.from_guid(GUID.from_urn(u)) succeeds and equals u for every
\* well-formed URN u of kind module, of kind object with object_no <=
\* 4294967295, of kind project with key >= 0x1000, or of kind folder with
\* key < 0x1000.
C6_ConversionRoundTripConvertible ==
    /\ (ConvertedToGuid /\ WellFormedUrn(cVals[1]) /\ Convertible(cVals[1]))
          => ~IsError(cVals[2])
    /\ (ConvertedBack /\ WellFormedUrn(cVals[1]) /\ Convertible(cVals[1]))
          => cVals[3] = cVals[1]

C6_Witness ==
    /\ ConvertedBack
    /\ WellFormedUrn(cVals[1]) /\ Convertible(cVals[1])
    /\ cVals[1].resource_type = OBJECT_T
    /\ cVals[1].object_no = Nat32(65535, 65535)

\* C7: whenever GUID.from_urn returns, the result has the URN's dbid, no
\* baseline key and the typecode, parent_key and object_key of the conversion
\* table for the URN's kind; it returns for every well-formed URN whose
\* object number fits 8 hex digits.
C7_FromUrnFollowsTable ==
    ConvertedToGuid =>
        LET u == cVals[1]
            g == cVals[2]
            t == u.resource_type
        IN  /\ (WellFormedUrn(u) /\ (t = OBJECT_T => u.object_no.hi < LimbBase))
                  => ~IsError(g)
            /\ ~IsError(g) =>
                /\ g.dbid = u.dbid
                /\ g.baseline_key = None
                /\ t = MODULE_T =>
                      /\ g.typecode = <<"2", "1">>
                      /\ g.parent_key = <<"2", "1">> \o u.key
                      /\ g.object_key = <<"2", "8", "f", "f", "f", "f", "f", "f", "f", "f">>
                /\ t \in {PROJECT_T, FOLDER_T} =>
                      /\ g.typecode = <<"1", "f">>
                      /\ g.parent_key = <<"1", "f">> \o u.key
                      /\ g.object_key = <<"2", "8", "f", "f", "f", "f", "f", "f", "f", "f">>
                /\ t = OBJECT_T =>
                      /\ g.typecode = <<"2", "3">>
                      /\ g.parent_key = <<"2", "1">> \o u.module_key
                      /\ Len(g.object_key) = 10
                      /\ SubSeq(g.object_key, 1, 2) = <<"2", "8">>
                      /\ IntOfHex(SubSeq(g.object_key, 3, 10)) = u.object_no

C7_Witness ==
    /\ ConvertedToGuid
    /\ cIn.kind = "urn_text"
    /\ cIn.text = <<"u", "r", "n", ":", "r", "a", "t", "i", "o", "n", "a", "l", ":", ":", "1", "-", "4", "8", "b", "e", "d", "a", "4", "4", "7", "c", "f", "b", "0", "c", "2", "7", "-", "O", "-", "2", "-", "0", "0", "0", "0", "3", "c", "2", "0">>
    /\ GUID_str(cVals[2]) = <<"A", "B", ":", "4", "8", "b", "e", "d", "a", "4", "4", "7", "c", "f", "b", "0", "c", "2", "7", ":", "2", "3", ":", "2", "1", "0", "0", "0", "0", "3", "c", "2", "0", ":", "2", "8", "0", "0", "0", "0", "0", "0", "0", "2">>

GuidParsed == cOps /= <<>> /\ cOps[1] = "GUID.from_string"
ConvertedToUrn == GuidParsed /\ Len(cOps) >= 2 /\ cOps[2] = "URN.from_guid"

\* C8: whenever URN.from_guid returns, the URN has the GUID's dbid, the
\* GUID's derived kind, the last 8 hex digits of parent_key as key, and for
\* an object the object id as object_no and the key as module_key; the
\* baseline key does not enter the result.
C8_FromGuidFields ==
    (ConvertedToUrn /\ ~IsError(cVals[2])) =>
        LET g == cVals[1]
            u == cVals[2]
        IN  /\ u.dbid = g.dbid
            /\ u.resource_type = get_resource_type(g)
            /\ u.key = Last8Hex(g.parent_key)
            /\ u.resource_type = OBJECT_T =>
                  (u.object_no = get_object_id(g) /\ u.module_key = u.key)
            /\ \A b \in {None} \cup {BaselineKey_from_string(t) : t \in GuidBaselines} :
                  URN_from_guid([g EXCEPT !.baseline_key = b]) = u

C8_Witness ==
    /\ ConvertedToUrn /\ ~IsError(cVals[2])
    /\ cVals[1].baseline_key /= None
    /\ cVals[2].resource_type = OBJECT_T
    /\ cVals[2].object_no = Nat32(0, 2)

\* the kind the type code and the last 8 hex digits of parent_key stand for
KindOf(typecode, trailing) ==
    IF typecode = <<"2", "1">> THEN MODULE_T
    ELSE IF typecode = <<"2", "3">> THEN OBJECT_T
    ELSE IF typecode /= <<"1", "f">> THEN ValueError
    ELSE IF GeqSmall(IntOfHex(trailing), ProjectThreshold) THEN PROJECT_T
    ELSE FOLDER_T

\* C9: get_resource_type is a function of typecode and the last 8 hex digits
\* of parent_key: 21 is module, 23 is object, 1f is project from 0x1000 on and
\* folder below, and any other typecode raises.
C9_KindFromTypecodeAndTrailingHex ==
    (GuidParsed /\ Len(cOps) >= 2 /\ cOps[2] = "GUID.get_resource_type") =>
        cVals[2] = KindOf(cVals[1].typecode, Last8Hex(cVals[1].parent_key))

GotObjectId == GuidParsed /\ Len(cOps) >= 2 /\ cOps[2] = "GUID.get_object_id"

\* C10: get_object_id is the last 8 hex digits of object_key read as an
\* unsigned integer, whatever the kind: it lies in 0..4294967295, is 2 for
\* "2800000002" and 4294967295 for the sentinel "28ffffffff".
C10_ObjectIdRange ==
    GotObjectId =>
        LET g == cVals[1]
            n == cVals[2]
        IN  /\ ~IsError(n)
            /\ ~n.neg /\ n.hi \in 0..(LimbBase - 1) /\ n.lo \in 0..(LimbBase - 1)
            /\ Format08x(n) = Last8Hex(g.object_key)
            /\ g.object_key = <<"2", "8", "0", "0", "0", "0", "0", "0", "0", "2">> => n = Nat32(0, 2)
            /\ g.object_key = <<"2", "8", "f", "f", "f", "f", "f", "f", "f", "f">> => n = Nat32(65535, 65535)

C10_Witness ==
    /\ GotObjectId
    /\ cVals[1].object_key = <<"2", "8", "f", "f", "f", "f", "f", "f", "f", "f">>
    /\ get_resource_type(cVals[1]) = FOLDER_T
    /\ cVals[2] = Nat32(65535, 65535)

\* some call derived the module URN of the URN before it
DerivedModuleAt(i) ==
    /\ i >= 2 /\ i <= Len(cOps)
    /\ cOps[i] = "module_urn_from_object_urn"

\* C11: module_urn_from_object_urn on an object URN returns the module URN
\* with the same dbid whose key is the object's module_key and which carries
\* no object number or module key (O-13-0000fa00 gives M-0000fa00); on a URN
\* of any other kind it fails with the wrong-kind error.
C11_ModuleUrnOfObject ==
    /\ \A i \in 1..Len(cOps) :
          DerivedModuleAt(i) =>
              IF cVals[i - 1].resource_type = OBJECT_T
              THEN cVals[i] = [tag |-> "URN", dbid |-> cVals[i - 1].dbid,
                               resource_type |-> MODULE_T,
                               key |-> cVals[i - 1].module_key,
                               object_no |-> None, module_key |-> NoneStr]
              ELSE cVals[i] = WrongKindError
    /\ (/\ cOps = <<"URN.from_string", "module_urn_from_object_urn", "URN.__str__">>
        /\ cIn.text = <<"u", "r", "n", ":", "r", "a", "t", "i", "o", "n", "a", "l", ":", ":", "1", "-", "4", "8", "b", "e", "d", "a", "4", "4", "7", "c", "f", "b", "0", "c", "2", "7", "-", "O", "-", "1", "3", "-", "0", "0", "0", "0", "f", "a", "0", "0">>)
          => cVals[3] = <<"u", "r", "n", ":", "r", "a", "t", "i", "o", "n", "a", "l", ":", ":", "1", "-", "4", "8", "b", "e", "d", "a", "4", "4", "7", "c", "f", "b", "0", "c", "2", "7", "-", "M", "-", "0", "0", "0", "0", "f", "a", "0", "0">>

C11_Witness ==
    /\ cOps = <<"URN.from_string", "module_urn_from_object_urn", "URN.__str__">>
    /\ cIn.text = <<"u", "r", "n", ":", "r", "a", "t", "i", "o", "n", "a", "l", ":", ":", "1", "-", "4", "8", "b", "e", "d", "a", "4", "4", "7", "c", "f", "b", "0", "c", "2", "7", "-", "O", "-", "1", "3", "-", "0", "0", "0", "0", "f", "a", "0", "0">>
    /\ cVals[3] = <<"u", "r", "n", ":", "r", "a", "t", "i", "o", "n", "a", "l", ":", ":", "1", "-", "4", "8", "b", "e", "d", "a", "4", "4", "7", "c", "f", "b", "0", "c", "2", "7", "-", "M", "-", "0", "0", "0", "0", "f", "a", "0", "0">>

\* the two GUIDs have been compared, or their hashes
Compared == Len(cOps) = 3 /\ cOps[3] = "GUID.__eq__"
HashesCompared == Len(cOps) = 3 /\ cOps[3] = "GUID.__hash__"

\* the five fields of the two GUIDs are the same
SameFields(a, b) ==
    /\ a.dbid = b.dbid /\ a.typecode = b.typecode
    /\ a.parent_key = b.parent_key /\ a.object_key = b.object_key
    /\ a.baseline_key = b.baseline_key

\* the positional part of an identifier text and its baseline part
PositionalText(text) == SubSeq(text, 1, 44)
BaselineText(text) == DropN(text, 44)

\* C19 as stated: two GUIDs are equal exactly when their five fields are,
\* equal GUIDs have equal hashes, texts that differ only in the case of hex
\* digits give equal GUIDs, and texts whose baseline keys differ give
\* unequal GUIDs.
C19_EqualityStructuralAnyCase ==
    /\ Compared => (cVals[3] <=> SameFields(cVals[1], cVals[2]))
    /\ (HashesCompared /\ GUID_eq(cVals[1], cVals[2])) => cVals[3]
    /\ (Compared /\ Lower(cIn.left) = Lower(cIn.right)) => cVals[3]
    /\ (Compared /\ PositionalText(cIn.left) = PositionalText(cIn.right)
          /\ cVals[1].baseline_key /= cVals[2].baseline_key) => ~cVals[3]

\* C19 amended: two GUIDs are equal exactly when their five fields are,
\* equal GUIDs have equal hashes, texts whose positional fields differ only
\* in letter case and whose baseline texts are the same give equal GUIDs,
\* and texts whose baseline keys differ as parsed, be it only in the letter
\* case of the baseline id, give unequal GUIDs.
C19_EqualityStructural ==
    /\ Compared => (cVals[3] <=> SameFields(cVals[1], cVals[2]))
    /\ (HashesCompared /\ GUID_eq(cVals[1], cVals[2])) => cVals[3]
    /\ (Compared /\ Lower(PositionalText(cIn.left)) = Lower(PositionalText(cIn.right))
          /\ BaselineText(cIn.left) = BaselineText(cIn.right)) => cVals[3]
    /\ (Compared /\ cVals[1].baseline_key /= cVals[2].baseline_key) => ~cVals[3]

\* upper-case positional fields and the same baseline: equal; the same
\* positional fields and a legacy baseline id in the other case: unequal
C19_Witness ==
    /\ Compared
    /\ cIn.left = GuidHead(DbidUpper, <<"1", "F">>, <<"1", "F", "0", "0", "0", "0", "5", "0", "0", "D">>, <<"2", "8", "F", "F", "F", "F", "F", "F", "F", "F">>) \o <<":", "{", "1", "a", ",", "0", "}">>
    /\ cIn.right = GuidHead(DbidLower, <<"1", "f">>, <<"1", "f", "0", "0", "0", "0", "5", "0", "0", "d">>, <<"2", "8", "f", "f", "f", "f", "f", "f", "f", "f">>) \o <<":", "{", "1", "a", ",", "0", "}">>
    /\ cVals[3]

\* the i-th call constructed a URN: URN(...), URN.from_string or
\* URN.from_guid returned one
UrnConstructedAt(i) ==
    /\ cOps[i] \in {"URN", "URN.from_string", "URN.from_guid"}
    /\ ~IsError(cVals[i])

UrnFieldsConsistent(u) ==
    /\ (u.object_no /= None) <=> (u.module_key /= NoneStr)
    /\ (u.object_no /= None) <=> (u.resource_type = OBJECT_T)
    /\ u.resource_type = OBJECT_T => u.key = u.module_key

\* C20: every URN value that is constructed has object_no and module_key both
\* present or both absent, present exactly when resource_type is OBJECT, and
\* then key equals module_key.
C20_ObjectFieldsIffObject ==
    \A i \in 1..Len(cOps) :
        UrnConstructedAt(i) => UrnFieldsConsistent(cVals[i])

----------------------------------------------------------------------------
(* resources.py and client.py: nodes and the identity map *)

\* dict.update and dict.get
DictUpdate(a, b) ==
    [k \in (DOMAIN a) \cup (DOMAIN b) |-> IF k \in DOMAIN b THEN b[k] ELSE a[k]]
DictGet(d, k, default) == IF k \in DOMAIN d THEN d[k] ELSE default

Ref(i) == [tag |-> "ref", id |-> i]
List(items) == [tag |-> "list", items |-> items]

\* RemoteResource.__init__ as Folder.__init__ calls it; Project and Document
\* inherit it
NewNode(cls, node) ==
    [cls |-> cls, guid |-> node["guid"], _meta |-> node,
     _loaded |-> (DOMAIN node /= {}), _children_cache |-> None]

\* a stub that carries the identifier only
_from_stub_NoName(cls, guid) ==
    NewNode(cls, [guid |-> GUID_str(guid)])

\* Folder._from_stub
_from_stub(cls, guid) ==
    NewNode(cls, [guid |-> GUID_str(guid), mainAttribute |-> GUID_str(guid)])

\* a hydration that replaces the metadata instead of merging into it
_hydrate_Replace(self, meta) == [self EXCEPT !._meta = meta, !._loaded = TRUE]

\* RemoteResource._hydrate
_hydrate(self, meta) ==
    [self EXCEPT !._meta = DictUpdate(@, meta), !._loaded = TRUE]

\* Folder._lazy_load
_lazy_load(self) == [self EXCEPT !._loaded = TRUE]

\* a str a call returns
Str(text) == [tag |-> "str", text |-> text]

\* RemoteResource.name: the node it leaves behind and the value it returns
name(self) ==
    [self |-> IF ~self._loaded THEN _lazy_load(self) ELSE self,
     val |-> Str(DictGet(self._meta, "mainAttribute", <<>>))]

\* A client is [identity, heap, resolved, fetched]; every method returns the
\* client it leaves behind together with val, what it returns or raises.
\* fetched lists the requests the call has sent to _get_children_nodes, each
\* with the parent it named and the records that came back.
Looked(c, guid, ref) == c.resolved \cup {<<guid, ref>>}

\* a lookup that never finds the GUID
GetOrCreateStub_NoLookup(c, cls, guid) ==
    [c EXCEPT !.identity = (guid :> (Len(c.heap) + 1)) @@ c.identity,
              !.heap = Append(c.heap, _from_stub(cls, guid)),
              !.resolved = Looked(c, guid, Len(c.heap) + 1),
              !.val = Ref(Len(c.heap) + 1)]

\* DWAClient.get_folder and DWAClient.get_document
GetOrCreateStub(c, cls, guid) ==
    LET ref == Len(c.heap) + 1
    IN  IF guid \in DOMAIN c.identity
        THEN [c EXCEPT !.resolved = Looked(c, guid, c.identity[guid]),
                       !.val = Ref(c.identity[guid])]
        ELSE [c EXCEPT !.identity = (guid :> ref) @@ c.identity,
                       !.heap = Append(c.heap, _from_stub(cls, guid)),
                       !.resolved = Looked(c, guid, ref),
                       !.val = Ref(ref)]
get_folder(c, guid) == GetOrCreateStub(c, "Folder", guid)
get_document(c, guid) == GetOrCreateStub(c, "Document", guid)

\* DWAClient.get_root_folder: guid is a GUID or [tag |-> "str", text |-> ...]
get_root_folder(c, guid) ==
    IF guid.tag = "GUID" THEN get_folder(c, guid)
    ELSE IF IsError(GUID_from_string(guid.text)) THEN [c EXCEPT !.val = ValueError]
    ELSE get_folder(c, GUID_from_string(guid.text))

\* a classification that knows no documents
ResourceClass_NoDocument(module_type) ==
    IF module_type = <<"P", "R", "O", "J", "E", "C", "T">> THEN "Project"
    ELSE "Folder"

\* the class _instantiate_from_node picks for a moduleType
ResourceClass(module_type) ==
    IF module_type = <<"P", "R", "O", "J", "E", "C", "T">> THEN "Project"
    ELSE IF module_type = <<"D", "O", "C", "U", "M", "E", "N", "T">> THEN "Document"
    ELSE "Folder"

\* an instantiation that forgets to enter the new node in the identity map
InstantiateParsed_NoInsert(c, node, guid) ==
    IF IsError(guid) THEN [c EXCEPT !.val = ValueError]
    ELSE IF guid \in DOMAIN c.identity
    THEN [c EXCEPT !.heap[c.identity[guid]] = _hydrate(@, node),
                   !.resolved = Looked(c, guid, c.identity[guid]),
                   !.val = Ref(c.identity[guid])]
    ELSE [c EXCEPT !.heap = Append(c.heap,
                       NewNode(ResourceClass(DictGet(node, "moduleType", NoneStr)), node)),
                   !.val = Ref(Len(c.heap) + 1)]

\* _instantiate_from_node after guid = GUID.from_string(node["guid"])
InstantiateParsed(c, node, guid) ==
    LET ref == Len(c.heap) + 1
    IN  IF IsError(guid) THEN [c EXCEPT !.val = ValueError]
        ELSE IF guid \in DOMAIN c.identity
        THEN [c EXCEPT !.heap[c.identity[guid]] = _hydrate(@, node),
                       !.resolved = Looked(c, guid, c.identity[guid]),
                       !.val = Ref(c.identity[guid])]
        ELSE [c EXCEPT !.identity = (guid :> ref) @@ c.identity,
                       !.heap = Append(c.heap,
                           NewNode(ResourceClass(DictGet(node, "moduleType", NoneStr)), node)),
                       !.resolved = Looked(c, guid, ref),
                       !.val = Ref(ref)]

\* DWAClient._instantiate_from_node
_instantiate_from_node(c, node) ==
    InstantiateParsed(c, node, GUID_from_string(node["guid"]))

\* the list comprehension of Folder.get_children: the records in order, up
\* to the first one that raises; r is what the previous record left behind
RECURSIVE InstantiateAll(_, _, _)
RECURSIVE InstantiateRest(_, _, _)
\* a comprehension that collects the nodes newest first
InstantiateRest_Prepend(r, nodes, acc) ==
    IF IsError(r.val) THEN r
    ELSE InstantiateAll(r, nodes, <<r.val.id>> \o acc)
InstantiateRest(r, nodes, acc) ==
    IF IsError(r.val) THEN r
    ELSE InstantiateAll(r, nodes, Append(acc, r.val.id))
InstantiateAll(c, nodes, acc) ==
    IF nodes = <<>> THEN [c EXCEPT !.val = List(acc)]
    ELSE InstantiateRest(_instantiate_from_node(c, nodes[1]), Tail(nodes), acc)

\* a comprehension whose result is returned but never kept
StoreChildren_NoStore(r, self) == r

\* an assignment that leaves an empty list behind when the comprehension raises
StoreChildren_EmptyOnError(r, self) ==
    IF IsError(r.val) THEN [r EXCEPT !.heap[self]._children_cache = List(<<>>)]
    ELSE [r EXCEPT !.heap[self]._children_cache = r.val]

\* an assignment that also drops from the identity map the children the
\* server no longer lists
StoreChildren_EvictUnlisted(r, self) ==
    IF IsError(r.val) THEN r
    ELSE LET old == r.heap[self]._children_cache
             gone == IF old = None THEN {}
                     ELSE {old.items[i] : i \in 1..Len(old.items)}
                              \ {r.val.items[i] : i \in 1..Len(r.val.items)}
             keep == {k \in DOMAIN r.identity : r.identity[k] \notin gone}
         IN  [r EXCEPT !.heap[self]._children_cache = r.val,
                       !.identity = [k \in keep |-> r.identity[k]]]

\* self._children_cache = [...] once the comprehension is evaluated
StoreChildren(r, self) ==
    IF IsError(r.val) THEN r
    ELSE [r EXCEPT !.heap[self]._children_cache = r.val]

\* DWAClient._get_children_nodes: the server's answer for parent, the request
\* noted in fetched
_get_children_nodes(c, server, parent) ==
    [c EXCEPT !.fetched = Append(@, [parent |-> parent, nodes |-> server[parent]])]

\* the comprehension over the records _get_children_nodes just returned
InstantiateFetched(c) ==
    InstantiateAll(c, c.fetched[Len(c.fetched)].nodes, <<>>)

\* a get_children that asks the server every time
get_children_AlwaysFetch(c, self, refresh, server) ==
    StoreChildren(
        InstantiateFetched(_get_children_nodes(c, server, c.heap[self].guid)),
        self)

\* Folder.get_children; server is what dwa/json/doors/node/getChildren
\* answers for each parentGuid
get_children(c, self, refresh, server) ==
    IF c.heap[self]._children_cache = None \/ refresh
    THEN StoreChildren(
             InstantiateFetched(_get_children_nodes(c, server, c.heap[self].guid)),
             self)
    ELSE [c EXCEPT !.val = c.heap[self]._children_cache]

\* isinstance(child, Folder)
FolderClasses == {"Folder", "Project", "Document"}

\* a generator that never comes back from a node that is among its own
\* descendants ends when Python's recursion limit is reached
RecursionError == [tag |-> "RecursionError"]

\* what a caller that exhausts walk() has seen: the nodes yielded, in order,
\* and the exception that ended the iteration, if one did.  For a walk that
\* re-enters a node it is still inside, items ends where the repetition begins.
Walked(items, raised) == [tag |-> "walk", items |-> items, raised |-> raised]

\* Folder.walk, exhausted; path holds the nodes whose walk is in progress,
\* out the nodes yielded so far
RECURSIVE walk(_, _, _, _, _)
RECURSIVE WalkChildren(_, _, _, _, _)
RECURSIVE WalkNext(_, _, _, _)

\* the loop over self.get_children(), r being what get_children left behind
WalkFetched(r, self, server, path, out) ==
    IF IsError(r.val) THEN [r EXCEPT !.val = Walked(out, r.val)]
    ELSE WalkChildren(r, r.val.items, server, path \cup {self}, out)

\* a walk that yields the children before the node itself
walk_PostOrder(c, self, server, path, out) ==
    IF self \in path THEN [c EXCEPT !.val = Walked(out, RecursionError)]
    ELSE [WalkFetched(get_children(c, self, FALSE, server), self, server, path, out)
             EXCEPT !.val = IF @.raised = None THEN Walked(Append(@.items, self), None)
                            ELSE @]

walk(c, self, server, path, out) ==
    IF self \in path THEN [c EXCEPT !.val = Walked(out, RecursionError)]
    ELSE WalkFetched(get_children(c, self, FALSE, server), self, server, path,
                     Append(out, self))

\* the rest of the loop after "yield from child.walk()" has left r behind
WalkNext(r, children, server, path) ==
    IF r.val.raised /= None THEN r
    ELSE WalkChildren(r, children, server, path, r.val.items)

WalkChildren(c, children, server, path, out) ==
    IF children = <<>> THEN [c EXCEPT !.val = Walked(out, None)]
    ELSE IF c.heap[children[1]].cls \notin FolderClasses
    THEN WalkChildren(c, Tail(children), server, path, out)
    ELSE WalkNext(walk(c, children[1], server, path, out), Tail(children),
                  server, path)

----------------------------------------------------------------------------
(* What callers pass and what the server returns *)

RootText == <<"A", "B", ":", "4", "8", "b", "e", "d", "a", "4", "4", "7", "c", "f", "b", "0", "c", "2", "7", ":", "1", "f", ":", "1", "f", "0", "0", "0", "0", "5", "0", "0", "d", ":", "2", "8", "f", "f", "f", "f", "f", "f", "f", "f">>
RootTextUpper == <<"A", "B", ":", "4", "8", "B", "E", "D", "A", "4", "4", "7", "C", "F", "B", "0", "C", "2", "7", ":", "1", "F", ":", "1", "F", "0", "0", "0", "0", "5", "0", "0", "D", ":", "2", "8", "F", "F", "F", "F", "F", "F", "F", "F">>
FolderText == <<"A", "B", ":", "4", "8", "b", "e", "d", "a", "4", "4", "7", "c", "f", "b", "0", "c", "2", "7", ":", "1", "f", ":", "1", "f", "0", "0", "0", "0", "0", "0", "0", "3", ":", "2", "8", "f", "f", "f", "f", "f", "f", "f", "f">>
RootBaselineText == <<"A", "B", ":", "4", "8", "b", "e", "d", "a", "4", "4", "7", "c", "f", "b", "0", "c", "2", "7", ":", "1", "f", ":", "1", "f", "0", "0", "0", "0", "5", "0", "0", "d", ":", "2", "8", "f", "f", "f", "f", "f", "f", "f", "f", ":", "{", "n", "u", "l", "l", ",", "0", "}">>
MalformedText == <<"A", "B", ":", "4", "8", "b", "e", "d", "a", "4", "4", "7", "c", "f", "b", "0", "c", "2", "7", ":", "1", "f", ":", "1", "f", "0", "0", "0", "0", "0", "0", "0", "3">>

\* the root with a modern baseline key built without an epoch,
\* BaselineKey(False, "null"), and the text str() gives it
RootNoEpochGuid ==
    GUID(DbidLower, <<"1", "f">>, <<"1", "f", "0", "0", "0", "0", "5", "0", "0", "d">>, <<"2", "8", "f", "f", "f", "f", "f", "f", "f", "f">>,
         BaselineKey(FALSE, <<"n", "u", "l", "l">>, None))
RootNoEpochText == <<"A", "B", ":", "4", "8", "b", "e", "d", "a", "4", "4", "7", "c", "f", "b", "0", "c", "2", "7", ":", "1", "f", ":", "1", "f", "0", "0", "0", "0", "5", "0", "0", "d", ":", "2", "8", "f", "f", "f", "f", "f", "f", "f", "f", ":", "{", "n", "u", "l", "l", ",", "N", "o", "n", "e", "}">>

GraphGuids == {GUID_from_string(t) : t \in {RootText, RootBaselineText}}
\* the GUIDs a caller has parsed or constructed
ConstructedGuids == GraphGuids \cup {RootNoEpochGuid}
RootArgs ==
    {GUID_from_string(RootText)} \cup
    {[tag |-> "str", text |-> t] : t \in {RootTextUpper, MalformedText}}

\* child records of dwa/json/doors/node/getChildren
RecRootProject ==
    [guid |-> RootText, moduleType |-> <<"P", "R", "O", "J", "E", "C", "T">>, mainAttribute |-> <<"p">>]
RecRootDocumentUpper == [guid |-> RootTextUpper, moduleType |-> <<"D", "O", "C", "U", "M", "E", "N", "T">>]
RecFolder == [guid |-> FolderText, mainAttribute |-> <<"f">>]
RecFolderDocument ==
    [guid |-> FolderText, moduleType |-> <<"D", "O", "C", "U", "M", "E", "N", "T">>, mainAttribute |-> <<"d">>]
RecMalformed == [guid |-> MalformedText, mainAttribute |-> <<"x">>]
\* a record whose moduleType is neither PROJECT nor DOCUMENT
RecFolderLowerCase == [guid |-> FolderText, moduleType |-> <<"d", "o", "c", "u", "m", "e", "n", "t">>]
Records ==
    {RecRootProject, RecRootDocumentUpper, RecFolder, RecFolderDocument,
     RecFolderLowerCase, RecMalformed}

\* what _get_children_nodes may return: no child, one GUID twice, the parent
\* among its own children, a malformed record first, last or in between
FetchResults ==
    {<<>>, <<RecFolder>>, <<RecMalformed>>,
     <<RecFolder, RecRootDocumentUpper>>,
     <<RecFolder, RecFolderDocument>>,
     <<RecRootProject, RecMalformed>>,
     <<RecFolder, RecRootProject, RecFolderDocument>>,
     <<RecFolderDocument, RecMalformed, RecRootProject>>}

MaxChildren == 2
MaxClientCalls == 3

ChildLists == {nodes \in FetchResults : Len(nodes) <= MaxChildren}

\* the identifier texts a node can carry: the guid of the record it was made
\* from, or the canonical text of the GUID a stub was asked for
ParentTexts ==
    {RootText, RootTextUpper, FolderText, RootBaselineText, RootNoEpochText}

RecBaseline == [guid |-> RootBaselineText, mainAttribute |-> <<"b">>]

\* a server whose root has the folder and the baseline as children, the
\* baseline has the folder again, and the folder has none
TreeServer ==
    [parent \in ParentTexts |->
        IF parent \in {RootText, RootTextUpper} THEN <<RecFolder, RecBaseline>>
        ELSE IF parent = RootBaselineText THEN <<RecFolder>>
        ELSE <<>>]

\* a server whose folder, below the root, has a malformed child
BrokenLeafServer ==
    [parent \in ParentTexts |->
        IF parent \in {RootText, RootTextUpper} THEN <<RecBaseline, RecFolder>>
        ELSE IF parent = FolderText THEN <<RecMalformed>>
        ELSE <<>>]

\* servers that answer every parent alike, and the two above
Servers ==
    {[parent \in ParentTexts |-> nodes] : nodes \in ChildLists}
    \cup {TreeServer, BrokenLeafServer}

----------------------------------------------------------------------------
(* Client calls *)

Client == [identity |-> identity, heap |-> heap, resolved |-> resolved,
           fetched |-> <<>>, val |-> None]

Return(op, arg, r) ==
    /\ calls < MaxClientCalls
    /\ calls' = calls + 1
    /\ identity' = r.identity
    /\ heap' = r.heap
    /\ resolved' = r.resolved
    /\ ret' = [op |-> op, arg |-> arg, val |-> r.val, fetched |-> r.fetched]
    /\ UNCHANGED <<codecVars, stepVars>>

GetFolder ==
    \E guid \in GraphGuids :
        Return("get_folder", guid, get_folder(Client, guid))

GetDocument ==
    \E guid \in GraphGuids :
        Return("get_document", guid, get_document(Client, guid))

GetRootFolder ==
    \E guid \in RootArgs :
        Return("get_root_folder", guid, get_root_folder(Client, guid))

InstantiateFromNode ==
    \E node \in Records :
        Return("_instantiate_from_node", node, _instantiate_from_node(Client, node))

GetName ==
    \E self \in 1..Len(heap) :
        Return("name", self,
               [Client EXCEPT !.heap[self] = name(@).self,
                              !.val = name(heap[self]).val])

GetChildren ==
    \E self \in 1..Len(heap), refresh \in BOOLEAN, server \in Servers :
        Return("get_children", [self |-> self, refresh |-> refresh],
               get_children(Client, self, refresh, server))

Walk ==
    \E self \in 1..Len(heap), server \in Servers :
        Return("walk", self, walk(Client, self, server, {}, <<>>))

Init ==
    /\ GraphInit
    /\ cIn = [kind |-> "None"]
    /\ cOps = <<>>
    /\ cVals = <<>>

Next ==
    \/ GetFolder
    \/ GetDocument
    \/ GetRootFolder
    \/ InstantiateFromNode
    \/ GetName
    \/ GetChildren

Spec == Init /\ [][Next]_vars

\* get_folder for a GUID the caller has built with the constructors
GetFolderConstructed ==
    \E guid \in ConstructedGuids :
        Return("get_folder", guid, get_folder(Client, guid))

\* the calls of a caller that passes parsed and constructed GUIDs
NextConstructed ==
    \/ GetFolderConstructed
    \/ GetDocument
    \/ InstantiateFromNode
    \/ GetChildren

SpecConstructed == Init /\ [][NextConstructed]_vars

\* the calls of a caller that only navigates: roots, children and walks
NextWalk ==
    \/ GetRootFolder
    \/ GetChildren
    \/ Walk

SpecWalk == Init /\ [][NextWalk]_vars

----------------------------------------------------------------------------
(* Properties of the identity map, checked under Spec *)

\* GUID.from_string of every identifier text that callers and servers use
GraphTexts == ParentTexts \cup {MalformedText}
Parsed == [t \in GraphTexts |-> GUID_from_string(t)]

\* the identity-map key of a node: its own identifier text, parsed
NodeKey(n) == Parsed[n.guid]

\* C1: at most one node exists per GUID, and every call that resolves a GUID
\* returns the node the identity map holds for it, the same one each time.
C1_IdentityUnique ==
    LET key == [i \in 1..Len(heap) |-> NodeKey(heap[i])]
    IN  /\ \A i, j \in 1..Len(heap) : key[i] = key[j] => i = j
        /\ \A p, q \in resolved : p[1] = q[1] => p[2] = q[2]
        /\ \A p \in resolved : p[1] \in DOMAIN identity /\ identity[p[1]] = p[2]
        /\ ret.val.tag = "ref" => ret.val.id = identity[key[ret.val.id]]
        /\ ret.val.tag = "list" =>
              \A i \in 1..Len(ret.val.items) :
                  ret.val.items[i] = identity[key[ret.val.items[i]]]

\* a stub made by get_folder is found again by a record that spells the same
\* GUID in upper case
C1_Witness ==
    /\ ret.op = "_instantiate_from_node"
    /\ ret.arg = RecRootDocumentUpper
    /\ ret.val.tag = "ref"
    /\ heap[ret.val.id].cls = "Folder"
    /\ heap[ret.val.id].guid = RootText
    /\ Len(heap) = 2

\* C2: _instantiate_from_node on a record whose GUID is mapped returns the
\* mapped node, writes the record's fields over its metadata and keeps the
\* other keys, and changes neither the node's guid, class and cached children
\* nor the identity map nor any other node; every reference handed out for
\* that GUID is a reference to this node.
C2_HydrationInPlace ==
    [][(ret'.op = "_instantiate_from_node" /\ calls' = calls + 1) =>
        LET node == ret'.arg
            guid == Parsed[node["guid"]]
        IN  (~IsError(guid) /\ guid \in DOMAIN identity) =>
            LET res == identity[guid]
            IN  /\ ret'.val = Ref(res)
                /\ identity' = identity
                /\ Len(heap') = Len(heap)
                /\ heap'[res].guid = heap[res].guid
                /\ heap'[res].cls = heap[res].cls
                /\ heap'[res]._children_cache = heap[res]._children_cache
                /\ DOMAIN heap'[res]._meta = (DOMAIN heap[res]._meta) \cup (DOMAIN node)
                /\ \A k \in DOMAIN node : heap'[res]._meta[k] = node[k]
                /\ \A k \in (DOMAIN heap[res]._meta) \ (DOMAIN node) :
                      heap'[res]._meta[k] = heap[res]._meta[k]
                /\ \A i \in 1..Len(heap) : i /= res => heap'[i] = heap[i]
                /\ \A p \in resolved : p[1] = guid => p[2] = res
      ]_vars

\* a Folder stub with a cached child list is hydrated by a DOCUMENT record
\* that has no mainAttribute
C2_Witness ==
    /\ ret.op = "_instantiate_from_node"
    /\ ret.arg = RecRootDocumentUpper
    /\ ret.val.tag = "ref"
    /\ heap[ret.val.id].cls = "Folder"
    /\ heap[ret.val.id]._children_cache /= None
    /\ heap[ret.val.id]._meta["mainAttribute"] = RootText
    /\ heap[ret.val.id]._meta["guid"] = RootTextUpper

----------------------------------------------------------------------------
(* Stubs and display names *)

\* the GUID a get_folder or get_root_folder call asked for
AskedGuid(call) ==
    IF call.arg.tag = "str" THEN Parsed[call.arg.text] ELSE call.arg

\* a record that names guid and carries a mainAttribute
Renames(node, guid) ==
    /\ "mainAttribute" \in DOMAIN node
    /\ Parsed[node["guid"]] = guid

\* the call hydrated the node of guid with a record that has a mainAttribute
HydratedWithName(call, guid) ==
    \/ call.op = "_instantiate_from_node" /\ Renames(call.arg, guid)
    \/ /\ call.op = "get_children"
       /\ \E f \in 1..Len(call.fetched) :
              \E k \in 1..Len(call.fetched[f].nodes) :
                  Renames(call.fetched[f].nodes[k], guid)

\* C12: get_folder and get_root_folder return the node mapped to the GUID and
\* leave every node and the map as they were when one exists; otherwise they
\* append one new node, map the GUID to it and return it, and its name is
\* str(guid).  The name of a node that is str(guid) changes only in a call
\* that hydrates the node with a record carrying a mainAttribute.
C12_GetOrCreateStub ==
    [][/\ (ret'.op \in {"get_folder", "get_root_folder"} /\ calls' = calls + 1
           /\ ~IsError(AskedGuid(ret'))) =>
            IF AskedGuid(ret') \in DOMAIN identity
            THEN /\ ret'.val = Ref(identity[AskedGuid(ret')])
                 /\ heap' = heap
                 /\ identity' = identity
            ELSE /\ ret'.val = Ref(Len(heap) + 1)
                 /\ Len(heap') = Len(heap) + 1
                 /\ SubSeq(heap', 1, Len(heap)) = heap
                 /\ identity' = (AskedGuid(ret') :> (Len(heap) + 1)) @@ identity
                 /\ name(heap'[Len(heap')]).val = Str(GUID_str(AskedGuid(ret')))
       /\ \A i \in 1..Len(heap) :
            (/\ name(heap[i]).val = Str(GUID_str(NodeKey(heap[i])))
             /\ name(heap'[i]).val /= name(heap[i]).val)
                => HydratedWithName(ret', NodeKey(heap[i]))
      ]_vars

\* a stub asked for in upper case is named by the canonical lower-case text
C12_Witness ==
    /\ ret.op = "get_root_folder"
    /\ ret.arg = [tag |-> "str", text |-> RootTextUpper]
    /\ ret.val = Ref(1)
    /\ Len(heap) = 1
    /\ name(heap[1]).val = Str(RootText)

----------------------------------------------------------------------------
(* Children: cache, order and errors *)

\* the step is a call of op
Called(op) == ret'.op = op /\ calls' = calls + 1

\* GUID.from_string raises on the guid of some record
Malformed(nodes) ==
    \E k \in 1..Len(nodes) : IsError(Parsed[nodes[k]["guid"]])

\* C13: get_children(refresh=False) on a node that has a cached list, empty
\* or not, returns that list and sends no request; with no cache, or with
\* refresh=True, it sends one request naming this node's identifier and,
\* when every record parses, returns a list of nodes of the identity map
\* which is now the node's cache.
C13_ChildrenCached ==
    [][Called("get_children") =>
        LET self == ret'.arg.self
        IN  IF heap[self]._children_cache /= None /\ ~ret'.arg.refresh
            THEN /\ ret'.val = heap[self]._children_cache
                 /\ ret'.fetched = <<>>
                 /\ heap' = heap
                 /\ identity' = identity
            ELSE /\ Len(ret'.fetched) = 1
                 /\ ret'.fetched[1].parent = heap[self].guid
                 /\ ~Malformed(ret'.fetched[1].nodes) =>
                       /\ ret'.val.tag = "list"
                       /\ heap'[self]._children_cache = ret'.val
                       /\ \A k \in 1..Len(ret'.val.items) :
                             \E g \in DOMAIN identity' :
                                 identity'[g] = ret'.val.items[k]
      ]_vars

\* a cached empty list is returned without a request
C13_Witness ==
    /\ ret.op = "get_children"
    /\ ~ret.arg.refresh
    /\ ret.fetched = <<>>
    /\ ret.val = List(<<>>)
    /\ heap[ret.arg.self]._children_cache = List(<<>>)

\* C14: the list a fetching get_children returns has one element per record
\* the server returned, in the server's order: element k is the node the
\* identity map holds for the GUID of record k, so records that name one GUID
\* give one node at several positions.
C14_ChildrenInServerOrder ==
    [][(Called("get_children") /\ ret'.fetched /= <<>> /\ ret'.val.tag = "list") =>
        LET nodes == ret'.fetched[1].nodes
            items == ret'.val.items
        IN  /\ Len(items) = Len(nodes)
            /\ \A k \in 1..Len(nodes) :
                  /\ Parsed[nodes[k]["guid"]] \in DOMAIN identity'
                  /\ items[k] = identity'[Parsed[nodes[k]["guid"]]]
      ]_vars

\* two records for one GUID give one node twice
C14_Witness ==
    /\ ret.op = "get_children"
    /\ ret.fetched /= <<>>
    /\ ret.fetched[1].nodes = <<RecFolder, RecFolderDocument>>
    /\ ret.val.tag = "list"
    /\ ret.val.items = <<2, 2>>
    /\ ret.arg.self = 1

\* the step is a get_children call that fetched a malformed record
FetchedMalformed ==
    /\ Called("get_children")
    /\ ret'.fetched /= <<>>
    /\ Malformed(ret'.fetched[1].nodes)

\* C17: when a fetched record is malformed, get_children raises the
\* ValueError of GUID.from_string, returns no list, and the node's children
\* cache is what it was before the call.
C17_MalformedRecordPropagates ==
    [][FetchedMalformed =>
        /\ ret'.val = ValueError
        /\ heap'[ret'.arg.self]._children_cache = heap[ret'.arg.self]._children_cache
      ]_vars

\* a refresh that meets a malformed record leaves the older list in place
C17_Witness ==
    /\ ret.op = "get_children"
    /\ ret.arg.refresh
    /\ ret.val = ValueError
    /\ heap[ret.arg.self]._children_cache = List(<<2>>)

KeysOf(nodes) == [k \in 1..Len(nodes) |-> Parsed[nodes[k]["guid"]]]

\* how many records stand in front of the first malformed one
ParsedPrefix(key) ==
    CHOOSE n \in 0..(Len(key) - 1) :
        /\ IsError(key[n + 1])
        /\ \A k \in 1..n : ~IsError(key[k])

----------------------------------------------------------------------------
(* Walks, checked under SpecWalk *)

\* the container children of node n in the cached order
ContainerChildren(h, n) ==
    IF h[n]._children_cache = None THEN <<>>
    ELSE SelectSeq(h[n]._children_cache.items,
                   LAMBDA child : h[child].cls \in FolderClasses)

\* depth-first pre-order with an explicit stack: take the top node, emit it,
\* put its children on the stack in their order
RECURSIVE PreOrder(_, _, _)
PreOrder(h, stack, out) ==
    IF stack = <<>> THEN out
    ELSE PreOrder(h, ContainerChildren(h, Head(stack)) \o Tail(stack),
                  Append(out, Head(stack)))

RECURSIVE Reach(_, _, _)
Reach(h, seen, todo) ==
    IF todo = {} THEN seen
    ELSE LET n == CHOOSE n \in todo : TRUE
             kids == {ContainerChildren(h, n)[k] :
                         k \in 1..Len(ContainerChildren(h, n))}
         IN  Reach(h, seen \cup {n}, (todo \cup kids) \ (seen \cup {n}))

\* the node had no children cache when the call began
Uncached(n) == n > Len(heap) \/ heap[n]._children_cache = None

\* C16: without refresh, a walk that comes to its end sends exactly one
\* request for each node it visits that had no cache, none for a node that had
\* one, and leaves every visited node cached; a walk or a get_children()
\* over nodes that are all cached sends no request and changes nothing, and a
\* walk repeated right after a complete one yields the same node sequence.
C16_FetchOncePerContainer ==
    [][/\ (Called("walk") /\ ret'.val.raised = None) =>
            LET visited == {ret'.val.items[p] : p \in 1..Len(ret'.val.items)}
            IN  /\ \A n \in visited : heap'[n]._children_cache /= None
                /\ \A n \in visited :
                      Cardinality({f \in 1..Len(ret'.fetched) :
                                      ret'.fetched[f].parent = heap'[n].guid})
                          = IF Uncached(n) THEN 1 ELSE 0
                /\ \A f \in 1..Len(ret'.fetched) :
                      \E n \in visited : ret'.fetched[f].parent = heap'[n].guid
       /\ (Called("walk") /\ \A n \in Reach(heap, {}, {ret'.arg}) : ~Uncached(n)) =>
            /\ ret'.fetched = <<>>
            /\ heap' = heap
            /\ identity' = identity
       /\ (Called("walk") /\ ret.op = "walk" /\ ret.arg = ret'.arg
              /\ ret.val.raised = None) =>
            /\ ret'.val = ret.val
            /\ ret'.fetched = <<>>
       /\ (Called("get_children") /\ ~ret'.arg.refresh /\ ret.op = "walk"
              /\ ret.val.raised = None
              /\ \E p \in 1..Len(ret.val.items) : ret.val.items[p] = ret'.arg.self) =>
            ret'.fetched = <<>>
      ]_vars

\* a second walk of the tree, served from the caches
C16_Witness ==
    /\ ret.op = "walk"
    /\ ret.val.raised = None
    /\ ret.val.items = <<1, 2, 3, 2>>
    /\ ret.fetched = <<>>
    /\ calls = 3

----------------------------------------------------------------------------
(* The loaded flag, the identity map and the node kinds, checked under Spec *)

\* the step is a call that appended a node to the heap
Created(op) == Called(op) /\ Len(heap') = Len(heap) + 1

\* C21: a node created as a stub by get_folder or get_document is unloaded
\* and stays unloaded until its name is read or a record hydrates it; a node
\* constructed from a server record is loaded from the start; a loaded node
\* never becomes unloaded again.
C21_LoadedFlagLifecycle ==
    [][/\ (Created("get_folder") \/ Created("get_document")) =>
              ~heap'[Len(heap')]._loaded
       /\ \A n \in 1..Len(heap) :
              (~heap[n]._loaded /\ heap'[n]._loaded) =>
                  \/ Called("name") /\ ret'.arg = n
                  \/ Called("_instantiate_from_node")
                  \/ Called("get_children")
       /\ (Created("_instantiate_from_node") \/ Created("get_children")) =>
              \A n \in (Len(heap) + 1)..Len(heap') : heap'[n]._loaded
       /\ \A n \in 1..Len(heap) : heap[n]._loaded => heap'[n]._loaded
      ]_vars

\* C24: the identity map grows monotonically: no call removes an entry or
\* rebinds a key, so a GUID once mapped stays mapped to the same node, also
\* across get_children(refresh=True) when the server no longer lists the child.
C24_IdentityMonotone ==
    [][/\ \A k \in DOMAIN identity :
              k \in DOMAIN identity' /\ identity'[k] = identity[k]
       /\ Len(heap') >= Len(heap)
       /\ \A n \in 1..Len(heap) :
              heap'[n].guid = heap[n].guid /\ heap'[n].cls = heap[n].cls
      ]_vars

\* a refresh has emptied the child list of a node, and the folder the server
\* listed before is still in the identity map
C24_Witness ==
    /\ ret.op = "get_children"
    /\ ret.arg.refresh
    /\ Len(ret.fetched) = 1
    /\ ret.val = List(<<>>)
    /\ Parsed[FolderText] \in DOMAIN identity
    /\ identity[Parsed[FolderText]] /= ret.arg.self
    /\ heap[identity[Parsed[FolderText]]]._meta = RecFolder

\* C25: given a record whose GUID is not yet in the identity map,
\* _instantiate_from_node creates a Project for moduleType PROJECT, a Document
\* for DOCUMENT and a plain Folder for any other or missing moduleType,
\* inserts the node under the parsed GUID and returns it with the record's
\* fields as its metadata.
C25_ClassifiedAndInserted ==
    [][(/\ Called("_instantiate_from_node")
        /\ ~IsError(Parsed[ret'.arg["guid"]])
        /\ Parsed[ret'.arg["guid"]] \notin DOMAIN identity) =>
           LET node == ret'.arg
               ref == Len(heap) + 1
               module_type == DictGet(node, "moduleType", NoneStr)
           IN  /\ Len(heap') = ref
               /\ ret'.val = Ref(ref)
               /\ heap'[ref].cls =
                      IF module_type = <<"P", "R", "O", "J", "E", "C", "T">> THEN "Project"
                      ELSE IF module_type = <<"D", "O", "C", "U", "M", "E", "N", "T">>
                      THEN "Document"
                      ELSE "Folder"
               /\ heap'[ref]._meta = node
               /\ heap'[ref].guid = node["guid"]
               /\ identity' = (Parsed[node["guid"]] :> ref) @@ identity
               /\ \A n \in 1..Len(heap) : heap'[n] = heap[n]
      ]_vars

\* the first call of a client instantiates a DOCUMENT record, the second a
\* record with another moduleType and a GUID of its own
C25_Witness ==
    /\ calls = 2
    /\ ret.op = "_instantiate_from_node"
    /\ ret.arg = RecFolderLowerCase
    /\ Len(heap) = 2
    /\ heap[1].cls = "Document"
    /\ heap[1]._meta = RecRootDocumentUpper
    /\ heap[2].cls = "Folder"
    /\ heap[2]._meta = RecFolderLowerCase
    /\ ret.val = Ref(2)

\* C29: the node kind agrees with the discriminant after any sequence of
\* calls: every node get_document returns is a Document, and every node of
\* the identity map whose metadata has moduleType DOCUMENT is a Document and
\* whose moduleType is PROJECT is a Project, also when the node began as a
\* stub and was hydrated later.
C29_KindAgreesWithDiscriminant ==
    /\ ret.op = "get_document" => heap[ret.val.id].cls = "Document"
    /\ \A k \in DOMAIN identity :
          LET n == heap[identity[k]]
              module_type == DictGet(n._meta, "moduleType", NoneStr)
          IN  /\ module_type = <<"D", "O", "C", "U", "M", "E", "N", "T">> => n.cls = "Document"
              /\ module_type = <<"P", "R", "O", "J", "E", "C", "T">> => n.cls = "Project"

\* C30: for every entry (k, n) of the identity map, parsing the node's own
\* identifier text gives its key, GUID.from_string(n.guid) == k, after any
\* sequence of stub creations, instantiations and hydrations; hydration never
\* changes n.guid, even when the record spells the identifier differently.
C30_KeyIsParsedNodeGuid ==
    \A k \in DOMAIN identity :
          /\ ~IsError(Parsed[heap[identity[k]].guid])
          /\ GUID_eq(Parsed[heap[identity[k]].guid], k)

----------------------------------------------------------------------------
(* Well-formedness, errors and canonical form of identifiers *)

\* the i-th call returned a GUID
GuidProducedAt(i) ==
    /\ cOps[i] \in {"GUID.from_string", "GUID.from_urn"}
    /\ ~IsError(cVals[i])

\* C26: every GUID produced by GUID.from_string, GUID.from_urn or the
\* constructor has typecode 21, 23 or 1f, a parent_key that begins with 21
\* when typecode is 21 or 23 and with 1f when typecode is 1f, and an
\* object_key that begins with 28.
C26_GuidWellFormed ==
    \A i \in 1..Len(cOps) :
        GuidProducedAt(i) =>
            LET g == cVals[i]
            IN  /\ g.typecode \in {<<"2", "1">>, <<"2", "3">>, <<"1", "f">>}
                /\ g.typecode \in {<<"2", "1">>, <<"2", "3">>} =>
                       StartsWith(g.parent_key, <<"2", "1">>)
                /\ g.typecode = <<"1", "f">> => StartsWith(g.parent_key, <<"1", "f">>)
                /\ StartsWith(g.object_key, <<"2", "8">>)

\* exactly n hex digits
HexDigits(s, n) == Len(s) = n /\ AllHex(s)

\* the grammar of an identifier text: "AB:", then 4 or 5 components between
\* colons, 16, 2 and 10 hex digits, "28" and 8 hex digits, and a fifth
\* component that BaselineKey.from_string accepts
WellFormedGuidText(s) ==
    /\ StartsWith(s, <<"A", "B", ":">>)
    /\ LET parts == Split(DropN(s, 3), ":")
       IN  /\ Len(parts) \in {4, 5}
           /\ HexDigits(parts[1], 16)
           /\ HexDigits(parts[2], 2)
           /\ HexDigits(parts[3], 10)
           /\ StartsWith(parts[4], <<"2", "8">>) /\ HexDigits(DropN(parts[4], 2), 8)
           /\ Len(parts) = 5 => ~IsError(BaselineKey_from_string(parts[5]))

\* C27: GUID.from_string fails, and produces no identifier, exactly when the
\* text does not start with "AB:", or the remainder does not split on ":"
\* into 4 or 5 components, or a positional component does not match its
\* fixed-width hex pattern, or a fifth component is not a valid baseline key.
C27_FromStringFailsExactlyOnMalformed ==
    (cOps /= <<>> /\ cOps[1] = "GUID.from_string") =>
        (IsError(cVals[1]) <=> ~WellFormedGuidText(cIn.text))

\* no letter of s is upper case
IsLowerCase(s) == Lower(s) = s

\* C28: canonicalisation is idempotent: GUID.from_string accepts hex digits
\* in either case and stores the four positional fields in lower case, and
\* for every accepted text s the canonical text c = str(GUID.from_string(s))
\* is accepted, GUID.from_string(c) == GUID.from_string(s) and
\* str(GUID.from_string(c)) == c.
C28_CanonicalTextIdempotent ==
    /\ (Len(cOps) >= 1 /\ ~IsError(cVals[1])) =>
          /\ IsLowerCase(cVals[1].dbid) /\ IsLowerCase(cVals[1].typecode)
          /\ IsLowerCase(cVals[1].parent_key) /\ IsLowerCase(cVals[1].object_key)
    /\ Len(cOps) >= 3 => ~IsError(cVals[3])
    /\ (Len(cOps) = 4 /\ cOps[4] = "GUID.__eq__") => cVals[4]
    /\ (Len(cOps) = 4 /\ cOps[4] = "GUID.__str__") => cVals[4] = cVals[2]

\* an upper-case text with the baseline {null,00}: its canonical text is in
\* lower case with the baseline {null,0}, and canonical again
C28_Witness ==
    /\ cIn.text = GuidHead(DbidUpper, <<"1", "F">>, <<"1", "F", "0", "0", "0", "0", "5", "0", "0", "D">>, <<"2", "8", "F", "F", "F", "F", "F", "F", "F", "F">>)
                      \o <<":", "{", "n", "u", "l", "l", ",", "0", "0", "}">>
    /\ Len(cOps) = 4 /\ cOps[4] = "GUID.__str__"
    /\ cVals[2] = GuidHead(DbidLower, <<"1", "f">>, <<"1", "f", "0", "0", "0", "0", "5", "0", "0", "d">>, <<"2", "8", "f", "f", "f", "f", "f", "f", "f", "f">>)
                      \o <<":", "{", "n", "u", "l", "l", ",", "0", "}">>
    /\ cVals[4] = cVals[2]

----------------------------------------------------------------------------
(* Two callers without mutual exclusion.  A step is what one caller does    *)
(* between two points where the other may run: the membership test (with   *)
(* the return or the hydration that follows it when the GUID is found), the *)
(* construction of a node, the insertion into the identity map, the cache   *)
(* test of get_children, its request, and the assignment of the child list. *)

\* what the server may answer while two callers race
RaceRecords == {RecFolder, RecRootDocumentUpper, RecMalformed}
RaceServers ==
    {TreeServer, BrokenLeafServer, [parent \in ParentTexts |-> <<RecFolder>>]}

\* one step of caller t: th is the caller afterwards, idm and hp the identity
\* map and the heap afterwards; calls numbers the steps
Step(t, th, idm, hp) ==
    /\ threads' = [threads EXCEPT ![t] = th]
    /\ identity' = idm
    /\ heap' = hp
    /\ calls' = calls + 1
    /\ UNCHANGED <<codecVars, ret, resolved, gen, remote>>

\* the caller once a lookup or an insertion has given it the node ref for
\* th.guid: get_folder and _instantiate_from_node return it, the list
\* comprehension of get_children goes on with the next record
Deliver(th, ref, absent) ==
    LET e == [guid |-> th.guid, ref |-> ref, absent |-> absent, at |-> calls + 1]
    IN  IF th.op = "get_children"
        THEN [th EXCEPT !.held = Append(@, e), !.acc = Append(@, ref),
                        !.pc = "next", !.guid = None, !.node = None, !.proxy = 0]
        ELSE [th EXCEPT !.held = Append(@, e), !.val = Ref(ref), !.pc = "done"]

\* "if guid in self._identity": found, the node is returned, hydrated first
\* when a record is being instantiated; not found, the caller goes on to
\* construct a node
CheckIdentity(t, th) ==
    IF th.guid \in DOMAIN identity
    THEN Step(t, Deliver(th, identity[th.guid], FALSE), identity,
              IF th.node = None THEN heap
              ELSE [heap EXCEPT ![identity[th.guid]] = _hydrate(@, th.node)])
    ELSE Step(t, [th EXCEPT !.pc = "construct"], identity, heap)

\* proxy = Folder._from_stub(self, guid), or res = Project/Document/Folder(self, node)
Construct(t) ==
    /\ threads[t].pc = "construct"
    /\ Step(t, [threads[t] EXCEPT !.proxy = Len(heap) + 1, !.pc = "insert"],
            identity,
            Append(heap,
                   IF threads[t].node = None
                   THEN _from_stub("Folder", threads[t].guid)
                   ELSE NewNode(ResourceClass(DictGet(threads[t].node, "moduleType",
                                                      NoneStr)),
                                threads[t].node)))

\* an insertion that leaves an existing entry alone
Inserted_KeepFirst(idm, guid, ref) ==
    IF guid \in DOMAIN idm THEN idm ELSE (guid :> ref) @@ idm

\* self._identity[guid] = proxy
Inserted(idm, guid, ref) == (guid :> ref) @@ idm

InsertProxy(t) ==
    /\ threads[t].pc = "insert"
    /\ Step(t, Deliver(threads[t], threads[t].proxy, TRUE),
            Inserted(identity, threads[t].guid, threads[t].proxy), heap)

\* a call of get_folder, up to the membership test
RaceGetFolder(t) ==
    /\ threads[t].pc = "idle"
    /\ \E guid \in GraphGuids :
           CheckIdentity(t, [IdleThread EXCEPT !.op = "get_folder", !.guid = guid])

\* a call of _instantiate_from_node, up to the membership test
RaceInstantiate(t) ==
    /\ threads[t].pc = "idle"
    /\ \E node \in RaceRecords :
           IF IsError(Parsed[node["guid"]])
           THEN Step(t, [IdleThread EXCEPT !.op = "_instantiate_from_node",
                                           !.node = node, !.val = ValueError,
                                           !.pc = "done"],
                     identity, heap)
           ELSE CheckIdentity(t, [IdleThread EXCEPT !.op = "_instantiate_from_node",
                                                    !.node = node,
                                                    !.guid = Parsed[node["guid"]]])

\* a call of get_children, up to "if self._children_cache is None or refresh"
RaceGetChildren(t) ==
    /\ threads[t].pc = "idle"
    /\ \E self \in 1..Len(heap), refresh \in BOOLEAN :
           Step(t,
                IF heap[self]._children_cache = None \/ refresh
                THEN [IdleThread EXCEPT !.op = "get_children", !.self = self,
                                        !.refresh = refresh, !.pc = "fetch"]
                ELSE [IdleThread EXCEPT !.op = "get_children", !.self = self,
                                        !.refresh = refresh,
                                        !.val = heap[self]._children_cache,
                                        !.pc = "done"],
                identity, heap)

\* nodes = self._client._get_children_nodes(self.guid)
Fetch(t) ==
    /\ threads[t].pc = "fetch"
    /\ \E server \in RaceServers :
           Step(t,
                [threads[t] EXCEPT
                    !.nodes = server[heap[threads[t].self].guid],
                    !.fetched = Append(@, [parent |-> heap[threads[t].self].guid,
                                           nodes |-> server[heap[threads[t].self].guid]]),
                    !.pc = "next"],
                identity, heap)

\* the comprehension takes the next record, up to the membership test of
\* _instantiate_from_node; with no record left the list is assigned to
\* self._children_cache and returned
NextRecord(t) ==
    /\ threads[t].pc = "next"
    /\ IF threads[t].nodes = <<>>
       THEN Step(t, [threads[t] EXCEPT !.val = List(threads[t].acc), !.pc = "done"],
                 identity,
                 [heap EXCEPT ![threads[t].self]._children_cache = List(threads[t].acc)])
       ELSE IF IsError(Parsed[Head(threads[t].nodes)["guid"]])
       THEN Step(t, [threads[t] EXCEPT !.val = ValueError, !.pc = "done"],
                 identity, heap)
       ELSE CheckIdentity(t, [threads[t] EXCEPT
                                 !.nodes = Tail(@),
                                 !.node = Head(threads[t].nodes),
                                 !.guid = Parsed[Head(threads[t].nodes)["guid"]]])

\* before the callers start, one call of get_root_folder
RaceSetup ==
    /\ calls = 0
    /\ GetRootFolder

RaceNext ==
    \/ RaceSetup
    \/ \E t \in Callers : RaceGetFolder(t)
    \/ \E t \in Callers : RaceInstantiate(t)
    \/ \E t \in Callers : RaceGetChildren(t)
    \/ \E t \in Callers : Fetch(t)
    \/ \E t \in Callers : NextRecord(t)
    \/ \E t \in Callers : Construct(t)
    \/ \E t \in Callers : InsertProxy(t)

SpecRace == Init /\ [][RaceNext]_vars

\* the resolutions the callers have made so far: caller and position in held
AllHeld ==
    UNION {{<<t, i>> : i \in 1..Len(threads[t].held)} : t \in Callers}
Entry(p) == threads[p[1]].held[p[2]]

\* C22: without mutual exclusion check-then-populate is not atomic.  Two
\* callers that resolve the same absent GUID (get_folder or
\* _instantiate_from_node) can both pass the membership test before either
\* inserts: then each constructs its own node, they hold two distinct
\* instances for one identifier, and the later insert overwrites the earlier
\* one in the map.  Two callers of get_children on the same uncached node can
\* both send the request.
C22_CheckThenPopulateRaces ==
    /\ \A p, q \in AllHeld :
          (/\ p[1] /= q[1]
           /\ Entry(p).guid = Entry(q).guid
           /\ Entry(p).absent /\ Entry(q).absent) => Entry(p).ref /= Entry(q).ref
    /\ \A p \in AllHeld :
          (/\ Entry(p).absent
           /\ \A q \in AllHeld :
                 (Entry(q).absent /\ Entry(q).guid = Entry(p).guid) =>
                     Entry(q).at <= Entry(p).at)
              => identity[Entry(p).guid] = Entry(p).ref
    /\ \A p \in AllHeld :
          ~Entry(p).absent => Parsed[heap[Entry(p).ref].guid] = Entry(p).guid
    /\ \A t \in Callers :
          (threads[t].op = "get_children" /\ threads[t].pc = "done"
              /\ threads[t].val.tag = "list" /\ threads[t].fetched /= <<>>) =>
             /\ Len(threads[t].fetched) = 1
             /\ Len(threads[t].val.items) = Len(threads[t].fetched[1].nodes)

\* both callers of get_children found the root uncached and sent the request,
\* both found the folder absent before either inserted it, each holds a node
\* of its own for it, and the map holds the one inserted later
C22_Witness ==
    /\ \A t \in Callers :
          /\ threads[t].op = "get_children" /\ threads[t].pc = "done"
          /\ threads[t].self = 1 /\ ~threads[t].refresh
          /\ Len(threads[t].fetched) = 1
          /\ threads[t].val.tag = "list"
          /\ Len(threads[t].held) = 1
          /\ threads[t].held[1].guid = Parsed[FolderText]
          /\ threads[t].held[1].absent
    /\ threads[1].val /= threads[2].val
    /\ threads[1].held[1].at < threads[2].held[1].at
    /\ identity[Parsed[FolderText]] = threads[2].held[1].ref
    /\ heap[1]._children_cache = threads[1].val

----------------------------------------------------------------------------
(* walk() consumed step by step.  gen.frames holds the suspended frames of  *)
(* the generator, the innermost last; a frame is at "start" before its      *)
(* "yield self", at "children" before self.get_children(), at "fetch" and   *)
(* "next" inside get_children (nodes being the records not yet              *)
(* instantiated, children the nodes made so far) and at "loop" inside the   *)
(* for loop, children being the children not yet visited.                   *)

\* the depth at which the interpreter raises RecursionError
RecursionLimit == 4

Frame(self, pc, children) ==
    [self |-> self, pc |-> pc, children |-> children, nodes |-> <<>>]
Top == gen.frames[Len(gen.frames)]

\* a resumption; r is the client it leaves behind
Resume(g, r) ==
    /\ gen' = g
    /\ identity' = r.identity
    /\ heap' = r.heap
    /\ resolved' = r.resolved
    /\ UNCHANGED <<codecVars, ret, calls, threads, remote>>

\* frames with the innermost one replaced
WithTop(frames, frame) == [frames EXCEPT ![Len(frames)] = frame]

\* a return that leaves the frame on the stack
Popped_Stay(frames) == frames

\* the frames once the innermost generator has returned
Popped(frames) == SubSeq(frames, 1, Len(frames) - 1)

\* the generator when nothing is left to run, or an exception has left it
Finished(yielded, raised) ==
    [state |-> "done", frames |-> <<>>, yielded |-> yielded, raised |-> raised]

\* the consumer calls walk() on a node: nothing runs yet
WalkBegin ==
    /\ gen.state \in {"none", "done"}
    /\ calls < MaxClientCalls
    /\ calls' = calls + 1
    /\ \E self \in 1..Len(heap) :
           gen' = [state |-> "running", frames |-> <<Frame(self, "start", <<>>)>>,
                   yielded |-> <<>>, raised |-> None]
    /\ UNCHANGED <<codecVars, identity, heap, ret, resolved, threads, remote>>

\* yield self
YieldSelf ==
    /\ gen.state = "running"
    /\ Top.pc = "start"
    /\ Resume([gen EXCEPT !.frames = WithTop(@, Frame(Top.self, "children", <<>>)),
                          !.yielded = Append(@, Top.self)],
              Client)

\* for child in self.get_children(): the call, up to the cache test
CallGetChildren ==
    /\ gen.state = "running"
    /\ Top.pc = "children"
    /\ IF heap[Top.self]._children_cache = None
       THEN Resume([gen EXCEPT !.frames = WithTop(@, Frame(Top.self, "fetch", <<>>))],
                   Client)
       ELSE Resume([gen EXCEPT !.frames =
                       WithTop(@, Frame(Top.self, "loop",
                                        heap[Top.self]._children_cache.items))],
                   Client)

\* nodes = self._client._get_children_nodes(self.guid)
FetchChildren ==
    /\ gen.state = "running"
    /\ Top.pc = "fetch"
    /\ Resume([gen EXCEPT !.frames =
                   WithTop(@, [Frame(Top.self, "next", <<>>)
                                 EXCEPT !.nodes = remote[heap[Top.self].guid]])],
              Client)

\* r is what _instantiate_from_node left behind for the first record of
\* nodes: its exception leaves every frame, its node joins the list
Instantiated(r) ==
    IF IsError(r.val) THEN Resume(Finished(gen.yielded, r.val), r)
    ELSE Resume([gen EXCEPT !.frames =
                    WithTop(@, [Top EXCEPT !.children = Append(@, r.val.id),
                                           !.nodes = Tail(@)])],
                r)

\* the comprehension instantiates the next record; with no record left the
\* list is assigned to self._children_cache and the loop starts on it
InstantiateNext ==
    /\ gen.state = "running"
    /\ Top.pc = "next"
    /\ IF Top.nodes = <<>>
       THEN Resume([gen EXCEPT !.frames =
                       WithTop(@, Frame(Top.self, "loop", Top.children))],
                   [Client EXCEPT !.heap[Top.self]._children_cache =
                                      List(Top.children)])
       ELSE Instantiated(InstantiateParsed(Client, Head(Top.nodes),
                                           Parsed[Head(Top.nodes)["guid"]]))

\* the loop takes the next child and, for a Folder, enters child.walk(); with
\* no child left the generator returns to the frame that resumed it
LoopChild ==
    /\ gen.state = "running"
    /\ Top.pc = "loop"
    /\ IF Top.children = <<>>
       THEN (IF Len(gen.frames) = 1
             THEN Resume([Finished(gen.yielded, None)
                             EXCEPT !.frames = Popped(gen.frames)], Client)
             ELSE Resume([gen EXCEPT !.frames = Popped(gen.frames)], Client))
       ELSE LET rest == WithTop(gen.frames,
                                Frame(Top.self, "loop", Tail(Top.children)))
                child == Head(Top.children)
            IN  IF heap[child].cls \notin FolderClasses
                THEN Resume([gen EXCEPT !.frames = rest], Client)
                ELSE IF Len(gen.frames) >= RecursionLimit
                THEN Resume(Finished(gen.yielded, RecursionError), Client)
                ELSE Resume([gen EXCEPT !.frames =
                                Append(rest, Frame(child, "start", <<>>))],
                            Client)

\* next() until the generator is exhausted
Consume ==
    \/ YieldSelf
    \/ CallGetChildren
    \/ FetchChildren
    \/ InstantiateNext
    \/ LoopChild

\* the hierarchy the server holds does not change while it is walked
WalkStepsInit ==
    /\ identity = <<>>
    /\ heap = <<>>
    /\ ret = NoCall
    /\ resolved = {}
    /\ calls = 0
    /\ threads = [t \in Callers |-> IdleThread]
    /\ gen = NoWalk
    /\ remote \in Servers
    /\ cIn = [kind |-> "None"]
    /\ cOps = <<>>
    /\ cVals = <<>>

WalkStepsNext ==
    \/ GetRootFolder
    \/ WalkBegin
    \/ YieldSelf
    \/ CallGetChildren
    \/ FetchChildren
    \/ InstantiateNext
    \/ LoopChild

\* a consumer that goes on calling next(), each fetch returning
SpecWalkSteps == WalkStepsInit /\ [][WalkStepsNext]_vars /\ WF_vars(Consume)

\* the GUIDs the server lists below the node of GUID k, whatever text the
\* node carries
ChildKeys(server, k) ==
    UNION {{Parsed[server[t][i]["guid"]] : i \in 1..Len(server[t])} :
              t \in {u \in ParentTexts : Parsed[u] = k}}

\* the GUIDs reachable from todo
RECURSIVE ReachKeys(_, _, _)
ReachKeys(server, seen, todo) ==
    IF todo \subseteq seen THEN seen
    ELSE ReachKeys(server, seen \cup todo,
                   UNION {ChildKeys(server, k) : k \in todo})

\* no GUID reachable from k is among its own descendants
AcyclicFrom(server, k) ==
    \A j \in ReachKeys(server, {}, {k}) :
        j \notin ReachKeys(server, {}, ChildKeys(server, j))

\* C23: a walk() that is consumed to the end terminates whenever the remote
\* hierarchy reachable from the start node is finite and acyclic, every
\* fetch returning; it ends before the recursion limit is reached.
C23_WalkTerminates ==
    (/\ gen.state = "running"
     /\ AcyclicFrom(remote, Parsed[heap[gen.frames[1].self].guid]))
        ~> (gen.state = "done" /\ gen.raised /= RecursionError)

\* the walk of the tree is exhausted: root, folder, baseline, and the folder
\* again below the baseline
C23_Witness ==
    /\ remote = TreeServer
    /\ gen.state = "done"
    /\ gen.raised = None
    /\ gen.yielded = <<1, 2, 3, 2>>

====
